---- MODULE Spec2Model ----
(***************************************************************************)
(* A state-machine model of the SolVX graph engine core:                   *)
(*   - CandleSeries   (packages/core/src/data/CandleSeries.ts)             *)
(*   - Chart render scheduling and the plugin pipeline                     *)
(*     (packages/core/src/Chart.ts, plugins/PluginManager.ts)              *)
(*   - PanHandler over a Viewport (interaction/PanHandler.ts,              *)
(*     viewport/Viewport.ts)                                               *)
(*   - the push data sources RandomWalkSource and ArrayPlaybackSource      *)
(* Each component has its own variables and its own specification; the     *)
(* variables of the other components stay at their initial values.         *)
(***************************************************************************)
EXTENDS Integers, Sequences, FiniteSets, TLC

(***************************************************************************)
(* Bounds of the model                                                     *)
(***************************************************************************)
\* largest number of rows a store of the model holds
MaxLen == 2
\* candle timestamps and query times range over 0..MaxTs
MaxTs == 2
\* successful plugin installations in one behaviour
MaxInstalls == 3
\* chart calls one plugin hook makes before it returns or throws
MaxHookCalls == 1
\* the count of coalesced render requests saturates here
MaxRequests == 2
\* finite time range endpoints of the model stay within -MaxAbsTime .. MaxAbsTime
MaxAbsTime == 2000
\* finite price range endpoints stay within -MaxAbsPrice .. MaxAbsPrice
MaxAbsPrice == 215
\* candles in the data of the playback source
DataLength == 2
\* pending timers of a source beyond the one whose handle it holds
MaxOrphans == 2
\* source calls made by one subscriber callback
MaxApiCalls == 2
\* frames of scheduleNext the call stack holds
MaxStack == 3
\* largest denominator of a time the viewport calls of the model produce
MaxDenominator == 4
\* direct calls of Viewport methods in one behaviour
MaxViewportCalls == 1
\* series calls one listener makes per invocation, and listener invocations
\* followed within one notification
MaxListenerCalls == 1
MaxInvocations == 4
\* the longest series of a zoomed chart
MaxSeriesLength == 14
\* RandomWalkSource: the latest time, the highest price and the largest volume
MaxNow == 7
MaxWalkPrice == 4
MaxWalkVolume == 2
MaxWalkSubscribers == 1
\* the largest timestamp and price sent through the scale functions
MaxScaleInput == 8
MaxZooms == 2
\* rows appended one by one to an empty store
MaxRows == 18
\* Viewport objects one chart constructs, and the series added to it
MaxViewports == 3
MaxSeries == 2

(***************************************************************************)
(* Program constants                                                       *)
(***************************************************************************)
\* minimum capacity of the backing columns after a grow
MinCapacity == 16
\* the value of an absent optional field and of an out-of-range array read
Undefined == 0 - 1

Max(a, b) == IF a >= b THEN a ELSE b
Min(a, b) == IF a <= b THEN a ELSE b

(***************************************************************************)
(* Numbers.  A double is modelled by the exact rational n/d in lowest      *)
(* terms with d > 0; d = 0 encodes the non-finite values: n = 1 Infinity,  *)
(* n = -1 -Infinity, n = 0 NaN.  The operators follow IEEE 754 on these    *)
(* values, with a single zero.  The inputs of the model are chosen so that *)
(* every finite result is a double exactly.  An operator binds its         *)
(* arguments (v \in {<<x, y>>}) so that each is evaluated once.            *)
(***************************************************************************)
Sign(x) == IF x > 0 THEN 1 ELSE IF x < 0 THEN 0 - 1 ELSE 0
Abs(x) == IF x < 0 THEN 0 - x ELSE x
RECURSIVE GCD(_, _)
GCD(a, b) == IF b = 0 THEN a ELSE GCD(b, a % b)
Num(n, d) ==
    IF d = 0 THEN [n |-> Sign(n), d |-> 0]
    ELSE CHOOSE r \in {[n |-> (Sign(d) * n) \div g, d |-> Abs(d) \div g] :
                          g \in {GCD(Abs(n), Abs(d))}} : TRUE
R(i) == [n |-> i, d |-> 1]
NaN == [n |-> 0, d |-> 0]
Infinity == [n |-> 1, d |-> 0]
NegInfinity == [n |-> 0 - 1, d |-> 0]
isNaN(a) == a.d = 0 /\ a.n = 0
isFinite(a) == a.d # 0

FNeg(x) == CHOOSE r \in {[n |-> 0 - a.n, d |-> a.d] : a \in {x}} : TRUE
FAdd(x, y) ==
    CHOOSE r \in {
        LET a == v[1]
            b == v[2]
        IN IF a.d # 0 /\ b.d # 0 THEN Num(a.n * b.d + b.n * a.d, a.d * b.d)
           ELSE IF isNaN(a) \/ isNaN(b) THEN NaN
           ELSE IF a.d = 0 /\ b.d = 0 THEN (IF a.n = b.n THEN a ELSE NaN)
           ELSE IF a.d = 0 THEN a ELSE b
        : v \in {<<x, y>>}} : TRUE
FSub(x, y) == FAdd(x, FNeg(y))
\* Math.abs
FAbs(x) == CHOOSE r \in {[n |-> Abs(a.n), d |-> a.d] : a \in {x}} : TRUE
FMul(x, y) ==
    CHOOSE r \in {
        LET a == v[1]
            b == v[2]
        IN IF a.d # 0 /\ b.d # 0 THEN Num(a.n * b.n, a.d * b.d)
           ELSE IF isNaN(a) \/ isNaN(b) THEN NaN
           ELSE IF a.n = 0 \/ b.n = 0 THEN NaN
           ELSE [n |-> Sign(a.n) * Sign(b.n), d |-> 0]
        : v \in {<<x, y>>}} : TRUE
FDiv(x, y) ==
    CHOOSE r \in {
        LET a == v[1]
            b == v[2]
        IN IF isNaN(a) \/ isNaN(b) THEN NaN
           ELSE IF a.d = 0 /\ b.d = 0 THEN NaN
           ELSE IF b.d = 0 THEN R(0)
           ELSE IF a.d = 0 THEN [n |-> IF b.n < 0 THEN 0 - a.n ELSE a.n, d |-> 0]
           ELSE IF b.n = 0 THEN [n |-> Sign(a.n), d |-> 0]
           ELSE Num(a.n * b.d, a.d * b.n)
        : v \in {<<x, y>>}} : TRUE
\* x < y; false when either is NaN
FLt(x, y) ==
    \E v \in {<<x, y>>} :
        LET a == v[1]
            b == v[2]
        IN IF isNaN(a) \/ isNaN(b) THEN FALSE
           ELSE IF a.d = 0 \/ b.d = 0
                THEN (a = NegInfinity /\ b # NegInfinity) \/ (b = Infinity /\ a # Infinity)
           ELSE a.n * b.d < b.n * a.d
FGt(x, y) == FLt(y, x)
FLe(x, y) == \E v \in {<<x, y>>} : ~isNaN(v[1]) /\ ~isNaN(v[2]) /\ (v[1] = v[2] \/ FLt(v[1], v[2]))
FMin(x, y) ==
    CHOOSE r \in {IF isNaN(v[1]) \/ isNaN(v[2]) THEN NaN ELSE IF FLt(v[2], v[1]) THEN v[2] ELSE v[1]
                  : v \in {<<x, y>>}} : TRUE
FMax(x, y) ==
    CHOOSE r \in {IF isNaN(v[1]) \/ isNaN(v[2]) THEN NaN ELSE IF FLt(v[1], v[2]) THEN v[2] ELSE v[1]
                  : v \in {<<x, y>>}} : TRUE

(***************************************************************************)
(* Candles.  The four price columns get distinct values derived from one   *)
(* price p, so that a mixed-up column shows.                               *)
(***************************************************************************)
MkCandle(t, p, v) ==
    [ts |-> t, open |-> p, high |-> p + 2, low |-> p - 1, close |-> p + 1, volume |-> v]
\* two kinds of candle at every timestamp: price 1 without a volume, price 2 with one
CandleSet == {MkCandle(t, 1, Undefined) : t \in 0..MaxTs}
                 \cup {MkCandle(t, 2, 7) : t \in 0..MaxTs}
NoCandle == MkCandle(0, 1, Undefined)

\* the inputs of setData: the sequences of at most two candles, in any order
CandleSeqs == UNION {[1..n -> CandleSet] : n \in 0..2}

VARIABLES
    \* ---- CandleSeries
    ts, open, high, low, close,   \* Float64Array columns (length = capacity)
    volume,                       \* [isNull, arr]: Float64Array | null
    hasVolume,
    length,
    last                          \* the last store operation: name, candle passed, branch taken

VARIABLES
    \* ---- PluginManager
    plugins,          \* Map<string, IPlugin>: the plugin names in insertion order
    stamp,            \* history: plugin name -> number of its successful install, 0 if absent
    clock,            \* history: successful installs so far
    lifecycle,        \* history: plugin name -> the lifecycle hook that is due next when
                      \* onInstall and onUninstall are invoked in turn
    \* ---- Chart
    renderScheduled,
    rafQueue,         \* frame callbacks requested and not yet run
    requests,         \* history: scheduleRender calls since the flag was last clear
    chartPc,          \* "idle", "dispatch" (in a hook loop), "hook" (in a plugin hook)
    run,              \* "none", "render", "event": what the hook loop belongs to
    phase,            \* index into RenderPhases of the frame's current phase
    cursor,           \* map entries the running loop has visited
    hookCalls,        \* chart calls made by the running hook
    frameLog,         \* history: phases dispatched by the current or last frame
    callLog,          \* history: plugins called by the current or last loop
    runModified,      \* history: the map changed during the current loop
    frameStatus       \* "none", "running", "completed", "threw"

VARIABLES
    \* ---- Viewport
    timeRange,        \* [start, end]
    priceConfig,      \* [min, max, paddingPx]
    width, height,
    \* ---- PanHandler, ZoomHandler
    panState,         \* PanHandler.state; NullPan for null
    zoomBounds,       \* ZoomHandler.minTime, maxTime, avgCandleDuration
    downRange,        \* history: the viewport's ranges at the last primary pointer-down
    cancelResult,     \* history: "none", or after a pointer-cancel that ended a drag
                      \* whether the viewport had "changed" since the pointer-down
    vpOp,             \* history: the last direct call of a Viewport method: name, args,
                      \* and seq, the number of direct calls so far
    panCall,          \* history: the last direct call of a PanHandler method: name, the
                      \* event's button and altKey, the value returned (handled) and
                      \* whether onUpdate was invoked (updated)
    \* ---- RandomWalkSource: the candle it builds
    walk,             \* [running, candle, price, now, candleDuration, subscribers]:
                      \* isRunning, currentCandle (Null for null), currentPrice, the
                      \* value of Date.now(), config.candleDuration, subscribers.size
    \* ---- Viewport: the scale functions in double precision
    scaled            \* history: the last value sent through a scale function and back:
                      \* [fn, arg, px, back], fn "none" before the first

VARIABLES
    \* ---- PluginManager called directly
    pluginCall        \* history: the last direct call of install or uninstall: [op, name,
                      \* had, threw, flip]: had tells whether the name was installed
                      \* before the call, and every call flips the bit

VARIABLES
    \* ---- ArrayPlaybackSource: the timestamps of the candles it emits
    replay            \* [loop, speed, fixedInterval, subscribers, running, index, startTime,
                      \* due, now, lastTs, emitted, error]: the configuration, the number of
                      \* subscribers, isRunning, currentIndex, startTime, the time the
                      \* pending timeout is due (Undefined when none is pending), the value
                      \* of Date.now(), and as history the timestamp emitted last, a bit
                      \* that every emission flips, and "RangeError" after a stack overflow

VARIABLES
    \* ---- Chart: the option and the object its frames depend on
    enableCrosshair,  \* Chart.interactionOptions.enableCrosshair, fixed by the constructor
    renderer          \* Chart.renderer is not null: FALSE once destroy() has run

VARIABLES
    \* ---- Chart: its listeners and the viewport its interaction handlers hold
    wiring            \* [options, handlers, seriesList, listening, viewport, created,
                      \* hasInitialViewport, renderScheduled, frames, renderer, panHandler,
                      \* zoomHandler, scrollHandler, crosshair, crosshairRenderer, op,
                      \* calls]: the interaction options, the EventManager's handlers by
                      \* event type (in insertion order), the number of series, whether
                      \* a series carries the listener of addSeries, the chart's Viewport
                      \* (objects are numbered in the order of their construction, 0 is
                      \* null), the number of Viewports constructed, the flag of
                      \* scheduleRender, the frame callbacks requested and not yet run,
                      \* whether the chart has its renderer, the handler objects with
                      \* the viewport each was constructed with (the empty tuple for
                      \* null), and as history the last operation and the handlers the
                      \* last event's listeners called

VARIABLES
    \* ---- Chart and ScrollHandler: the wheel mode
    wheelMode,        \* Chart.interactionOptions.wheelMode
    scrollMode,       \* ScrollHandler.wheelMode
    wheelLog          \* history: [set, by, e, applied, flip]: the mode most recently set
                      \* and by what ("constructor" or "setWheelMode"), the last wheel
                      \* event of WheelBothAxes, the handlers that changed the viewport
                      \* for it ("scroll", "zoom"), and a bit that every such event flips

VARIABLES
    \* ---- Chart: the viewport it owns and its data sources
    hasInitialViewport,       \* FALSE from resetViewport until the next frame
    dataSourceSubscriptions   \* Map<CandleSeries, unsubscribe>: the series connected

VARIABLES
    \* ---- Crosshair
    crosshair         \* Crosshair.state: [x, y, candle, candleIndex, time, price, visible]

VARIABLES
    \* ---- CandleSeries: change listeners
    listeners,        \* Set<ChangeListener>: the listeners in insertion order
    storePc,          \* "idle", "notify" (in notifyListeners), "listener"
    notifyCursor,     \* set entries the running forEach has visited
    listenerCalls,    \* series calls made by the running listener
    notifyLog,        \* history: listeners invoked by the current or last notification
    notifyStart,      \* history: the listeners registered when that notification began
    notifyRemoved,    \* history: the listeners deleted from the set during it
    notifyAdded,      \* history: the listeners added to the set during it
    notifyStatus      \* history: "none", "running", "completed", "threw"

VARIABLES
    \* ---- RandomWalkSource / ArrayPlaybackSource
    srcKind,          \* "randomWalk" or "playback": the class of the source
    loop,             \* ArrayPlaybackSource.loop
    speed,            \* ArrayPlaybackSource.speed
    speedCall,        \* history: the last setSpeed call: its argument, whether it threw,
                      \* and a bit that every call flips
    subscribers,      \* Set<CandleUpdateCallback>: the callbacks in insertion order
    unsubscribers,    \* the callbacks whose unsubscribe function has been returned
    isRunning,
    timerId,          \* intervalId / timeoutId: "null", or the handle of a "pending"
                      \* timer, or of a timeout that has "fired"
    orphans,          \* pending timers of the source whose handle it no longer holds
    currentIndex,     \* ArrayPlaybackSource.currentIndex
    currentCandle,    \* RandomWalkSource.currentCandle: "null" or "some"
    srcPc,            \* "idle", "notify" (in notifySubscribers), "callback"
    emitCursor,       \* set entries the running notifySubscribers loop has visited
    apiCalls,         \* source calls made by the running callback
    emitRunning,      \* history: isRunning when the timer of the current emission fired
    control,          \* history: start() or stop() has been called directly
    lastError         \* "none", or "RangeError" when the last timer callback overflowed the stack

storeVars == <<ts, open, high, low, close, volume, hasVolume, length, last>>
chartVars == <<plugins, stamp, clock, lifecycle, renderScheduled, rafQueue, requests, chartPc, run,
               phase, cursor, hookCalls, frameLog, callLog, runModified, frameStatus>>

viewportVars == <<timeRange, priceConfig, width, height>>
wheelVars == <<wheelMode, scrollMode, wheelLog>>
handlerVars == <<panState, zoomBounds, downRange, cancelResult>>
frameVars == <<hasInitialViewport, dataSourceSubscriptions>>
listenerVars == <<listeners, storePc, notifyCursor, listenerCalls, notifyLog, notifyStart,
                  notifyRemoved, notifyAdded, notifyStatus>>

sourceVars == <<srcKind, loop, speed, speedCall, subscribers, unsubscribers, isRunning, timerId, orphans, currentIndex,
                currentCandle, srcPc, emitCursor, apiCalls, emitRunning, control, lastError>>

vars == <<storeVars, chartVars, viewportVars, handlerVars, sourceVars, vpOp, frameVars, crosshair, listenerVars, panCall, walk, scaled, wheelVars, pluginCall, replay, wiring, enableCrosshair, renderer>>
otherThanStore == <<chartVars, viewportVars, handlerVars, sourceVars, vpOp, frameVars, crosshair, listenerVars, panCall, walk, scaled, wheelVars, pluginCall, replay, wiring, enableCrosshair, renderer>>
otherThanWiring == <<storeVars, chartVars, viewportVars, handlerVars, sourceVars, vpOp, frameVars, crosshair, listenerVars, panCall, walk, scaled, wheelVars, pluginCall, replay, enableCrosshair, renderer>>
otherThanChart == <<storeVars, viewportVars, handlerVars, sourceVars, vpOp, frameVars, crosshair, listenerVars, panCall, walk, scaled, wheelVars, pluginCall, replay, wiring, enableCrosshair, renderer>>

(***************************************************************************)
(* Typed arrays                                                            *)
(***************************************************************************)
\* new Float64Array(n): zero-filled
Zeros(n) == [i \in 1..n |-> 0]
\* arr[i] = v: a write beyond the array's length is ignored
WriteAt(arr, i, v) == IF i >= 0 /\ i < Len(arr) THEN [arr EXCEPT ![i + 1] = v] ELSE arr
\* arr[i]: a read beyond the array's length yields undefined
ReadAt(arr, i) == IF i >= 0 /\ i < Len(arr) THEN arr[i + 1] ELSE Undefined
NullArray == [isNull |-> TRUE, arr |-> <<>>]
SomeArray(a) == [isNull |-> FALSE, arr |-> a]

(***************************************************************************)
(* [...candles].sort((a, b) => a.ts - b.ts): a stable sort by timestamp    *)
(***************************************************************************)
RECURSIVE InsertByTs(_, _)
InsertByTs(sorted, c) ==
    IF sorted = <<>> THEN <<c>>
    ELSE IF sorted[Len(sorted)].ts <= c.ts THEN Append(sorted, c)
    ELSE Append(InsertByTs(SubSeq(sorted, 1, Len(sorted) - 1), c), sorted[Len(sorted)])

RECURSIVE SortByTs(_)
SortByTs(candles) ==
    IF candles = <<>> THEN <<>>
    ELSE InsertByTs(SortByTs(SubSeq(candles, 1, Len(candles) - 1)), candles[Len(candles)])

(***************************************************************************)
(* CandleSeries: reads                                                     *)
(***************************************************************************)
\* null: the result of getCandle outside the rows, of domainX and domainY on
\* an empty series
Null == [isNull |-> TRUE]

\* getCandle(index): null when index is not the index of a row
getCandle(index) ==
    IF index < 0 \/ index >= length THEN Null
    ELSE [ts |-> ReadAt(ts, index), open |-> ReadAt(open, index),
          high |-> ReadAt(high, index), low |-> ReadAt(low, index),
          close |-> ReadAt(close, index),
          volume |-> IF volume.isNull THEN Undefined ELSE ReadAt(volume.arr, index)]

\* toArray()
toArray == [i \in 1..length |-> getCandle(i - 1)]

\* a binary search that skips the rows equal to the target
RECURSIVE FirstLoopSkipEqual(_, _, _)
FirstLoopSkipEqual(left, right, target) ==
    IF left < right
    THEN LET mid == (left + right) \div 2
             midTs == ReadAt(ts, mid)
         IN IF midTs = Undefined THEN left
            ELSE IF FLe(R(midTs), target) THEN FirstLoopSkipEqual(mid + 1, right, target)
            ELSE FirstLoopSkipEqual(left, mid, target)
    ELSE left

firstIndexAtOrAfter_SkipEqual(target) ==
    IF length = 0 THEN 0 ELSE FirstLoopSkipEqual(0, length, target)

RECURSIVE FirstLoop(_, _, _)
FirstLoop(left, right, target) ==
    IF left < right
    THEN LET mid == (left + right) \div 2
             midTs == ReadAt(ts, mid)
         IN IF midTs = Undefined THEN left
            ELSE IF FLt(R(midTs), target) THEN FirstLoop(mid + 1, right, target)
            ELSE FirstLoop(left, mid, target)
    ELSE left

firstIndexAtOrAfter(target) ==
    IF length = 0 THEN 0 ELSE FirstLoop(0, length, target)

RECURSIVE LastLoop(_, _, _)
LastLoop(left, right, target) ==
    IF left < right
    THEN LET mid == (left + right + 1) \div 2     \* Math.ceil((left + right) / 2)
             midTs == ReadAt(ts, mid)
         IN IF midTs = Undefined THEN left
            ELSE IF FGt(R(midTs), target) THEN LastLoop(left, mid - 1, target)
            ELSE LastLoop(mid, right, target)
    ELSE left

lastIndexAtOrBefore(target) ==
    IF length = 0 THEN 0 - 1 ELSE LastLoop(0 - 1, length - 1, target)

\* domainX()
domainX ==
    IF length = 0 THEN Null
    ELSE IF ReadAt(ts, 0) = Undefined \/ ReadAt(ts, length - 1) = Undefined THEN Null
    ELSE [isNull |-> FALSE, start |-> R(ReadAt(ts, 0)), end |-> R(ReadAt(ts, length - 1))]

\* the scan of domainY over the rows i .. endIndex - 1, from the running
\* minimum and maximum m
RECURSIVE DomainYLoop(_, _, _)
DomainYLoop(i, endIndex, m) ==
    IF i < endIndex
    THEN CHOOSE r \in {DomainYLoop(i + 1, endIndex, next) :
             next \in {[min |-> IF ReadAt(low, i) # Undefined /\ FLt(R(ReadAt(low, i)), m.min)
                                THEN R(ReadAt(low, i)) ELSE m.min,
                        max |-> IF ReadAt(high, i) # Undefined /\ FGt(R(ReadAt(high, i)), m.max)
                                THEN R(ReadAt(high, i)) ELSE m.max]}} : TRUE
    ELSE m

\* domainY(xRange)
domainY(xRange) ==
    IF length = 0 THEN Null
    ELSE CHOOSE r \in {
             IF b.startIndex >= b.endIndex THEN Null
             ELSE IF ~isFinite(b.found.min) \/ ~isFinite(b.found.max) THEN Null
             ELSE [isNull |-> FALSE, min |-> b.found.min, max |-> b.found.max]
             : b \in {[startIndex |-> i[1], endIndex |-> i[2],
                       found |-> DomainYLoop(i[1], i[2], [min |-> Infinity, max |-> NegInfinity])]
                      : i \in {<<firstIndexAtOrAfter(xRange.start),
                                 lastIndexAtOrBefore(xRange.end) + 1>>}}} : TRUE

\* arr.subarray(start, end), for 0 <= start: both ends are clamped to the array
SubArray(arr, start, end) ==
    LET b == Min(start, Len(arr))
        f == Max(b, Min(end, Len(arr)))
    IN [i \in 1..(f - b) |-> arr[b + i]]

\* rangeByIndex(startIndex, endIndex): a view of the columns
rangeByIndex(startIndex, endIndex) ==
    LET start == Max(0, startIndex)
        end == Min(length, endIndex)
    IN IF start >= end
       THEN [ts |-> <<>>, open |-> <<>>, high |-> <<>>, low |-> <<>>, close |-> <<>>,
             volume |-> IF hasVolume THEN SomeArray(<<>>) ELSE NullArray,
             startIndex |-> start, endIndex |-> start, length |-> 0]
       ELSE [ts |-> SubArray(ts, start, end), open |-> SubArray(open, start, end),
             high |-> SubArray(high, start, end), low |-> SubArray(low, start, end),
             close |-> SubArray(close, start, end),
             volume |-> IF volume.isNull THEN NullArray
                        ELSE SomeArray(SubArray(volume.arr, start, end)),
             startIndex |-> start, endIndex |-> end, length |-> end - start]

\* a rangeByTime whose end time is exclusive
rangeByTime_EndExclusive(startTime, endTime) ==
    rangeByIndex(firstIndexAtOrAfter(startTime), lastIndexAtOrBefore(endTime))

\* rangeByTime(startTime, endTime)
rangeByTime(startTime, endTime) ==
    rangeByIndex(firstIndexAtOrAfter(startTime), lastIndexAtOrBefore(endTime) + 1)

(***************************************************************************)
(* CandleSeries: mutations, as actions on the store's fields               *)
(***************************************************************************)
\* the fields of an empty store: setData([]) and clear()
ResetStore ==
    /\ length' = 0
    /\ ts' = <<>> /\ open' = <<>> /\ high' = <<>> /\ low' = <<>> /\ close' = <<>>
    /\ volume' = NullArray
    /\ hasVolume' = FALSE

setData(candles) ==
    IF Len(candles) = 0 THEN ResetStore
    ELSE LET sorted == SortByTs(candles)
             n == Len(sorted)
             hv == \E i \in 1..n : sorted[i].volume # Undefined
         IN /\ hasVolume' = hv
            /\ length' = n
            /\ ts' = [i \in 1..n |-> sorted[i].ts]
            /\ open' = [i \in 1..n |-> sorted[i].open]
            /\ high' = [i \in 1..n |-> sorted[i].high]
            /\ low' = [i \in 1..n |-> sorted[i].low]
            /\ close' = [i \in 1..n |-> sorted[i].close]
            /\ volume' = IF hv
                         THEN SomeArray([i \in 1..n |->
                                  IF sorted[i].volume # Undefined THEN sorted[i].volume ELSE 0])
                         ELSE NullArray

\* grow(): the new capacity
NewCapacity(currentCapacity) == Max(MinCapacity, (3 * currentCapacity + 1) \div 2)
\* grow(): a column's new array, the first len values copied
GrowColumn(arr, len, newCapacity) ==
    [i \in 1..newCapacity |-> IF i <= len /\ i <= Len(arr) THEN arr[i] ELSE 0]
\* grow(): the volume column
GrowVolume(vol, hv, len, newCapacity) ==
    IF hv
    THEN SomeArray(IF vol.isNull THEN Zeros(newCapacity)
                   ELSE GrowColumn(vol.arr, len, newCapacity))
    ELSE NullArray

appendCandle(candle) ==
    LET needVolume == candle.volume # Undefined /\ ~hasVolume
        hv == hasVolume \/ needVolume
        vol1 == IF needVolume THEN SomeArray(Zeros(Max(length, MinCapacity))) ELSE volume
        currentCapacity == Len(ts)
        needGrow == length >= currentCapacity
        newCapacity == NewCapacity(currentCapacity)
        Col(arr) == IF needGrow THEN GrowColumn(arr, length, newCapacity) ELSE arr
        vol2 == IF needGrow THEN GrowVolume(vol1, hv, length, newCapacity) ELSE vol1
    IN /\ hasVolume' = hv
       /\ ts' = WriteAt(Col(ts), length, candle.ts)
       /\ open' = WriteAt(Col(open), length, candle.open)
       /\ high' = WriteAt(Col(high), length, candle.high)
       /\ low' = WriteAt(Col(low), length, candle.low)
       /\ close' = WriteAt(Col(close), length, candle.close)
       /\ volume' = IF ~vol2.isNull /\ candle.volume # Undefined
                    THEN SomeArray(WriteAt(vol2.arr, length, candle.volume))
                    ELSE vol2
       /\ length' = length + 1

updateLastCandle(candle) ==
    IF length = 0
    THEN UNCHANGED <<ts, open, high, low, close, volume, hasVolume, length>>
    ELSE LET lastIndex == length - 1
         IN /\ ts' = WriteAt(ts, lastIndex, candle.ts)
            /\ open' = WriteAt(open, lastIndex, candle.open)
            /\ high' = WriteAt(high, lastIndex, candle.high)
            /\ low' = WriteAt(low, lastIndex, candle.low)
            /\ close' = WriteAt(close, lastIndex, candle.close)
            /\ volume' = IF ~volume.isNull /\ candle.volume # Undefined
                         THEN SomeArray(WriteAt(volume.arr, lastIndex, candle.volume))
                         ELSE volume
            /\ UNCHANGED <<hasVolume, length>>

\* an updateOrAppend that appends every row that is not an update of the last one
UpdateOrAppendBranch_AcceptsOlder(candle) ==
    IF length = 0 THEN "append"
    ELSE LET lastTs == ReadAt(ts, length - 1)
         IN IF candle.ts = lastTs THEN "update" ELSE "append"

\* which branch updateOrAppend takes
UpdateOrAppendBranch(candle) ==
    IF length = 0 THEN "append"
    ELSE LET lastTs == ReadAt(ts, length - 1)
         IN IF lastTs = Undefined THEN "append"
            ELSE IF candle.ts = lastTs THEN "update"
            ELSE IF candle.ts > lastTs THEN "append"
            ELSE "reject"

updateOrAppend(candle) ==
    LET branch == UpdateOrAppendBranch(candle)
    IN IF branch = "append" THEN appendCandle(candle)
       ELSE IF branch = "update" THEN updateLastCandle(candle)
       ELSE UNCHANGED <<ts, open, high, low, close, volume, hasVolume, length>>

(***************************************************************************)
(* The store's operations as steps of the model                            *)
(***************************************************************************)
Op(name, candle, branch) == [op |-> name, arg |-> candle, branch |-> branch]

SetData ==
    \E candles \in CandleSeqs :
        /\ setData(candles)
        /\ last' = Op("setData", NoCandle, "set")
        /\ UNCHANGED otherThanStore

AppendCandle ==
    \E candle \in CandleSet :
        /\ length < MaxLen
        /\ appendCandle(candle)
        /\ last' = Op("appendCandle", candle, "append")
        /\ UNCHANGED otherThanStore

UpdateLastCandle ==
    \E candle \in CandleSet :
        /\ updateLastCandle(candle)
        /\ last' = Op("updateLastCandle", candle, IF length = 0 THEN "reject" ELSE "update")
        /\ UNCHANGED otherThanStore

UpdateOrAppend ==
    \E candle \in CandleSet :
        /\ UpdateOrAppendBranch(candle) = "append" => length < MaxLen
        /\ updateOrAppend(candle)
        /\ last' = Op("updateOrAppend", candle, UpdateOrAppendBranch(candle))
        /\ UNCHANGED otherThanStore

Clear ==
    /\ ResetStore
    /\ last' = Op("clear", NoCandle, "set")
    /\ UNCHANGED otherThanStore

\* this.listeners = new Set()
ListenersInit ==
    /\ listeners = <<>>
    /\ storePc = "idle"
    /\ notifyCursor = 0
    /\ listenerCalls = 0
    /\ notifyLog = <<>>
    /\ notifyStart = <<>>
    /\ notifyRemoved = {}
    /\ notifyAdded = {}
    /\ notifyStatus = "none"

StoreInit ==
    /\ length = 0
    /\ ts = <<>> /\ open = <<>> /\ high = <<>> /\ low = <<>> /\ close = <<>>
    /\ volume = NullArray
    /\ hasVolume = FALSE
    /\ last = Op("new", NoCandle, "set")
    /\ ListenersInit

StoreNext == SetData \/ AppendCandle \/ UpdateLastCandle \/ UpdateOrAppend \/ Clear

\* the rows of a feed, appended one by one: the timestamp of row n is n, and once the feed
\* carries a volume it keeps carrying one
FeedRows == {MkCandle(length, 1, v) : v \in {Undefined, 7}}
AppendRow ==
    \E candle \in FeedRows :
        /\ length < MaxRows
        /\ candle.volume = Undefined => ~hasVolume
        /\ appendCandle(candle)
        /\ last' = Op("appendCandle", candle, "append")
        /\ UNCHANGED otherThanStore

GrowNext == AppendRow

(***************************************************************************)
(* Viewport                                                                *)
(***************************************************************************)
\* an absent optional argument
NoDelta == [n |-> 0, d |-> 0 - 1]

getTimeSpan == FSub(timeRange.end, timeRange.start)
getPriceSpan == FSub(priceConfig.max, priceConfig.min)

invX(px) ==
    IF width = R(0) THEN timeRange.start
    ELSE FAdd(timeRange.start, FMul(FDiv(px, width), getTimeSpan))
invY(px) ==
    CHOOSE r \in {
        IF availableHeight = R(0)
        THEN FDiv(FAdd(priceConfig.min, priceConfig.max), R(2))
        ELSE FAdd(priceConfig.min,
                  FMul(FSub(R(1), FDiv(FSub(px, priceConfig.paddingPx), availableHeight)),
                       getPriceSpan))
        : availableHeight \in {FSub(height, FMul(R(2), priceConfig.paddingPx))}} : TRUE

(***************************************************************************)
(* IEEE 754 doubles.  The values the scale functions compute from whole    *)
(* numbers are not whole, and each operation rounds its exact result to 53 *)
(* significant bits, to nearest, ties to even.  A double is [m, e, neg]:    *)
(* the 53 bits of its significand m, most significant first (<<>> for      *)
(* zero), the exponent e of its last bit, and its sign: (-1)^neg * m * 2^e.*)
(* The whole numbers and the exponents here stay far from the ends of the  *)
(* range of a double, so nothing overflows and nothing is subnormal.       *)
(* Every operator binds its operands once, in a one-element set.           *)
(***************************************************************************)
\* the binary digits of a natural number, most significant first
RECURSIVE Bits(_)
Bits(n) == IF n = 0 THEN <<>> ELSE Append(Bits(n \div 2), n % 2)
\* a without its leading zeros
Trim(a) ==
    IF \A i \in 1..Len(a) : a[i] = 0 THEN <<>>
    ELSE SubSeq(a, CHOOSE i \in 1..Len(a) : a[i] = 1 /\ \A j \in 1..(i - 1) : a[j] = 0, Len(a))
\* a * 2^k
ShiftLeft(a, k) == IF a = <<>> THEN a ELSE a \o Zeros(k)
\* a widened to n digits
Widen(a, n) == Zeros(n - Len(a)) \o a
\* the number written by the digits from..to of a
RECURSIVE ChunkValue(_, _, _)
ChunkValue(a, from, to) ==
    IF to < from THEN 0 ELSE 2 * ChunkValue(a, from, to - 1) + a[to]
\* Long numbers are worked on ten digits (a chunk) at a time: chunk i of a
\* number of n chunks, the ten digits of a chunk value, and a number widened
\* to n whole chunks
Chunk(a, i) == ChunkValue(a, 10 * i - 9, 10 * i)
ChunkDigits(n) == Widen(Bits(n), 10)
Chunks(a) == (Len(a) + 9) \div 10
Chunked(a, n) == Widen(a, 10 * n)
\* the chunks i.. of a + b and the carry out of them
RECURSIVE AddFrom(_, _, _)
AddFrom(a, b, i) ==
    IF 10 * i > Len(a) THEN [s |-> <<>>, c |-> 0]
    ELSE CHOOSE r \in {[s |-> ChunkDigits(w[2] % 1024) \o w[1].s, c |-> w[2] \div 1024] :
            w \in {<<lo, Chunk(a, i) + Chunk(b, i) + lo.c>> : lo \in {AddFrom(a, b, i + 1)}}} : TRUE
AddWide(a, b) == CHOOSE r \in {Trim(<<w.c>> \o w.s) : w \in {AddFrom(a, b, 1)}} : TRUE
AddBits(a, b) ==
    CHOOSE r \in {AddWide(Chunked(v[1], v[3]), Chunked(v[2], v[3])) :
                  v \in {<<a, b, IF Len(a) > Len(b) THEN Chunks(a) ELSE Chunks(b)>>}} : TRUE
\* the chunks i.. of a - b and the borrow out of them
RECURSIVE SubFrom(_, _, _)
SubFrom(a, b, i) ==
    IF 10 * i > Len(a) THEN [s |-> <<>>, c |-> 0]
    ELSE CHOOSE r \in {[s |-> ChunkDigits((w[2] + 1024) % 1024) \o w[1].s,
                        c |-> IF w[2] < 0 THEN 1 ELSE 0] :
            w \in {<<lo, Chunk(a, i) - Chunk(b, i) - lo.c>> : lo \in {SubFrom(a, b, i + 1)}}} : TRUE
SubWide(a, b) == CHOOSE r \in {Trim(w.s) : w \in {SubFrom(a, b, 1)}} : TRUE
\* a - b for a >= b
SubBits(a, b) ==
    CHOOSE r \in {SubWide(Chunked(v[1], v[3]), Chunked(v[2], v[3])) :
                  v \in {<<a, b, IF Len(a) > Len(b) THEN Chunks(a) ELSE Chunks(b)>>}} : TRUE
\* a < b, for numbers without leading zeros
LessBits(a, b) ==
    IF Len(a) # Len(b) THEN Len(a) < Len(b)
    ELSE \E i \in 1..Len(a) : a[i] < b[i] /\ \A j \in 1..(i - 1) : a[j] = b[j]
\* the chunks i.. of a * k for a natural k below 4096, and the carry out of them
RECURSIVE MulFrom(_, _, _)
MulFrom(a, k, i) ==
    IF 10 * i > Len(a) THEN [s |-> <<>>, c |-> 0]
    ELSE CHOOSE r \in {[s |-> ChunkDigits(w[2] % 1024) \o w[1].s, c |-> w[2] \div 1024] :
            w \in {<<lo, Chunk(a, i) * k + lo.c>> : lo \in {MulFrom(a, k, i + 1)}}} : TRUE
MulWide(a, k) == CHOOSE r \in {Trim(Bits(w.c) \o w.s) : w \in {MulFrom(a, k, 1)}} : TRUE
MulSmall(a, k) == CHOOSE r \in {MulWide(Chunked(v, Chunks(v)), k) : v \in {a}} : TRUE
\* the first i chunks of a divided by a natural 0 < d < 4096: quotient and
\* remainder, by long division
RECURSIVE DivLoop(_, _, _)
DivLoop(a, d, i) ==
    IF i = 0 THEN [q |-> <<>>, r |-> 0]
    ELSE CHOOSE r \in {[q |-> w[1].q \o ChunkDigits(w[2] \div d), r |-> w[2] % d] :
            w \in {<<before, before.r * 1024 + Chunk(a, i)>> :
                   before \in {DivLoop(a, d, i - 1)}}} : TRUE
DivWide(a, d) ==
    CHOOSE r \in {[q |-> Trim(qr.q), r |-> qr.r] : qr \in {DivLoop(a, d, Len(a) \div 10)}} : TRUE
DivSmall(a, d) == CHOOSE r \in {DivWide(Chunked(v, Chunks(v)), d) : v \in {a}} : TRUE

Zero == [m |-> <<>>, e |-> 0, neg |-> FALSE]
\* the 53 digits kept of n, plus one when the digits dropped are more than
\* half of the last place, or exactly half and the last digit is odd
RoundUp(n, sticky) ==
    /\ n[54] = 1
    /\ (sticky \/ n[53] = 1 \/ \E i \in 55..Len(n) : n[i] = 1)
Rounded(n, sticky) ==
    IF RoundUp(n, sticky) THEN AddBits(SubSeq(n, 1, 53), <<1>>) ELSE SubSeq(n, 1, 53)
\* the double nearest to (-1)^neg * n * 2^e (plus a residue below the last
\* digit of n when sticky); n has at least 55 digits when sticky
RoundBitsV(n, sticky, e, neg) ==
    IF n = <<>> THEN Zero
    ELSE IF Len(n) <= 53
    THEN [m |-> ShiftLeft(n, 53 - Len(n)), e |-> e - (53 - Len(n)), neg |-> neg]
    ELSE CHOOSE r \in {IF Len(m) = 54
                       THEN [m |-> SubSeq(m, 1, 53), e |-> e + (Len(n) - 53) + 1, neg |-> neg]
                       ELSE [m |-> m, e |-> e + (Len(n) - 53), neg |-> neg] :
                       m \in {Rounded(n, sticky)}} : TRUE
RoundBits(n, sticky, e, neg) ==
    CHOOSE r \in {RoundBitsV(v[1], v[2], v[3], v[4]) : v \in {<<n, sticky, e, neg>>}} : TRUE
\* the double of a whole number
FromInt(n) == RoundBits(Bits(Abs(n)), FALSE, 0, n < 0)
\* u / d and u * k for a double u and whole numbers d # 0 and k below 4096
DDivIntV(u, d) ==
    CHOOSE r \in {RoundBits(qr.q, qr.r # 0, u.e - 14, u.neg # (d < 0)) :
                  qr \in {DivSmall(ShiftLeft(u.m, 14), Abs(d))}} : TRUE
DDivInt(u, d) == CHOOSE r \in {DDivIntV(v, d) : v \in {u}} : TRUE
DMulInt(u, k) ==
    CHOOSE r \in {RoundBits(MulSmall(v.m, Abs(k)), FALSE, v.e, v.neg # (k < 0)) : v \in {u}} : TRUE
\* the significands of u and v aligned at the lower of the two exponents
AlignedV(u, v, e) ==
    [u |-> ShiftLeft(u.m, u.e - e), v |-> ShiftLeft(v.m, v.e - e), e |-> e,
     uneg |-> u.neg, vneg |-> v.neg]
Aligned(u, v) ==
    CHOOSE r \in {AlignedV(w[1], w[2], IF w[1].e < w[2].e THEN w[1].e ELSE w[2].e) :
                  w \in {<<u, v>>}} : TRUE
\* u + v: the sum of the magnitudes under a common sign, their difference
\* under the sign of the larger otherwise
DAddV(a) ==
    IF a.uneg = a.vneg THEN RoundBits(AddBits(a.u, a.v), FALSE, a.e, a.uneg)
    ELSE IF LessBits(a.u, a.v) THEN RoundBits(SubBits(a.v, a.u), FALSE, a.e, a.vneg)
    ELSE RoundBits(SubBits(a.u, a.v), FALSE, a.e, a.uneg)
DAdd(u, v) == CHOOSE r \in {DAddV(a) : a \in {Aligned(u, v)}} : TRUE
DNeg(u) == CHOOSE r \in {IF v.m = <<>> THEN v ELSE [v EXCEPT !.neg = ~v.neg] : v \in {u}} : TRUE
DSub(u, v) == DAdd(u, DNeg(v))
\* |u| <= |v|
DAbsLe(u, v) == \E a \in {Aligned(u, v)} : ~LessBits(a.v, a.u)

\* the number of zeros a ends with
TrailingZeros(a) ==
    IF a = <<>> THEN 0
    ELSE Len(a) - (CHOOSE i \in 1..Len(a) : a[i] = 1 /\ \A j \in (i + 1)..Len(a) : a[j] = 0)
\* u with its significand shortened to an odd number: the same value
Shortened(u) ==
    CHOOSE r \in {[m |-> SubSeq(v[1].m, 1, Len(v[1].m) - v[2]), e |-> v[1].e + v[2], neg |-> v[1].neg] :
                  v \in {<<u, TrailingZeros(u.m)>>}} : TRUE
\* a times the first i chunks of b
RECURSIVE MulLoop(_, _, _)
MulLoop(a, b, i) ==
    IF i = 0 THEN <<>>
    ELSE CHOOSE r \in {AddBits(ShiftLeft(before, 10), MulSmall(a, Chunk(b, i))) :
                       before \in {MulLoop(a, b, i - 1)}} : TRUE
\* a * b
MulBits(a, b) ==
    CHOOSE r \in {MulLoop(v[1], Chunked(v[2], Chunks(v[2])), Chunks(v[2])) : v \in {<<a, b>>}} : TRUE
\* one step of a long division by d: the next digit of the dividend joins
\* the remainder, and d is taken from it when it fits
DivStep(s, digit, d) ==
    CHOOSE r \in {IF LessBits(r2, d) THEN [q |-> s.q \o <<0>>, r |-> r2]
                  ELSE [q |-> s.q \o <<1>>, r |-> SubBits(r2, d)] :
                  r2 \in {Trim(s.r \o <<digit>>)}} : TRUE
RECURSIVE DivDigits(_, _, _, _, _)
DivDigits(s, a, d, from, to) ==
    IF to < from THEN s
    ELSE CHOOSE r \in {DivStep(before, a[to], d) : before \in {DivDigits(s, a, d, from, to - 1)}} : TRUE
\* the first i chunks of a divided by d, ten digits at a time
RECURSIVE DivLong(_, _, _)
DivLong(a, d, i) ==
    IF i = 0 THEN [q |-> <<>>, r |-> <<>>]
    ELSE CHOOSE r \in {DivDigits(before, a, d, 10 * i - 9, 10 * i) :
                       before \in {DivLong(a, d, i - 1)}} : TRUE
\* a divided by d # 0: the quotient, and whether a remainder is left
DivBits(a, d) ==
    IF Len(d) <= 11
    THEN CHOOSE r \in {[q |-> qr.q, rest |-> qr.r # 0] :
                       qr \in {DivSmall(a, ChunkValue(d, 1, Len(d)))}} : TRUE
    ELSE CHOOSE r \in {[q |-> Trim(qr.q), rest |-> qr.r # <<>>] :
                       qr \in {DivLong(Chunked(v, Chunks(v)), d, Chunks(v)) : v \in {a}}} : TRUE

\* Exact values (-1)^neg * m * 2^e, with a significand of any length: the
\* whole number n, u * v, u + v and u - v without rounding, u * 2^k
Whole(n) == [m |-> Bits(Abs(n)), e |-> 0, neg |-> n < 0]
Times(u, v) ==
    CHOOSE r \in {[m |-> MulBits(w[1].m, w[2].m), e |-> w[1].e + w[2].e, neg |-> w[1].neg # w[2].neg] :
                  w \in {<<Shortened(u), Shortened(v)>>}} : TRUE
PlusV(a) ==
    IF a.uneg = a.vneg THEN [m |-> AddBits(a.u, a.v), e |-> a.e, neg |-> a.uneg]
    ELSE IF LessBits(a.u, a.v) THEN [m |-> SubBits(a.v, a.u), e |-> a.e, neg |-> a.vneg]
    ELSE [m |-> SubBits(a.u, a.v), e |-> a.e, neg |-> a.uneg]
Plus(u, v) == CHOOSE r \in {PlusV(a) : a \in {Aligned(u, v)}} : TRUE
Minus(u, v) == Plus(u, DNeg(v))
TimesPow2(u, k) == [u EXCEPT !.e = @ + k]
\* the larger in magnitude of u and v
DAbsMax(u, v) == IF DAbsLe(u, v) THEN v ELSE u

\* u * v and u / v (v # 0) for doubles u and v, rounded
DMul(u, v) == CHOOSE r \in {RoundBits(x.m, FALSE, x.e, x.neg) : x \in {Times(u, v)}} : TRUE
DDivV(u, d) ==
    CHOOSE r \in {RoundBits(w[1].q, w[1].rest, u.e - w[2] - d.e, u.neg # d.neg) :
                  w \in {<<DivBits(ShiftLeft(u.m, k), d.m), k>> : k \in {Len(d.m) + 3}}} : TRUE
DDiv(u, v) ==
    CHOOSE r \in {IF w[1].m = <<>> THEN Zero ELSE DDivV(w[1], w[2]) :
                  w \in {<<u, Shortened(v)>>}} : TRUE

(***************************************************************************)
(* Viewport: the scale functions as the doubles compute them, for a        *)
(* viewport whose configuration is made of whole numbers and for whole     *)
(* timestamps and prices.  A difference of two whole numbers is exact.     *)
(***************************************************************************)
NoScaled == [fn |-> "none", arg |-> 0, px |-> Zero, back |-> Zero, divs |-> {}]

xScale(t) ==
    CHOOSE r \in {
        IF v.timeSpan = 0 THEN Zero
        ELSE DMulInt(DDivInt(FromInt(t - v.start), v.timeSpan), width.n)
        : v \in {[start |-> timeRange.start.n,
                  timeSpan |-> timeRange.end.n - timeRange.start.n]}} : TRUE

yScale(price) ==
    CHOOSE r \in {
        IF v.priceSpan = 0 THEN DDivInt(FromInt(height.n), 2)
        ELSE DAdd(FromInt(priceConfig.paddingPx.n),
                  DMulInt(DSub(FromInt(1), DDivInt(FromInt(price - priceConfig.min.n), v.priceSpan)),
                          v.availableHeight))
        : v \in {[priceSpan |-> priceConfig.max.n - priceConfig.min.n,
                  availableHeight |-> height.n - 2 * priceConfig.paddingPx.n]}} : TRUE

\* invX without the start of the range
invX_Double_FromZero(px) ==
    IF width.n = 0 THEN FromInt(timeRange.start.n)
    ELSE DMulInt(DDivInt(px, width.n), timeRange.end.n - timeRange.start.n)

\* invY with the lower end of the prices as its fallback
invY_Double_Min(px) ==
    CHOOSE r \in {
        IF availableHeight = 0
        THEN FromInt(priceConfig.min.n)
        ELSE DAdd(FromInt(priceConfig.min.n),
                  DMulInt(DSub(FromInt(1),
                               DDivInt(DSub(px, FromInt(priceConfig.paddingPx.n)), availableHeight)),
                          priceConfig.max.n - priceConfig.min.n))
        : availableHeight \in {height.n - 2 * priceConfig.paddingPx.n}} : TRUE

\* invX and invY of a pixel coordinate that is a double
invX_Double(px) ==
    IF width.n = 0 THEN FromInt(timeRange.start.n)
    ELSE DAdd(FromInt(timeRange.start.n),
              DMulInt(DDivInt(px, width.n), timeRange.end.n - timeRange.start.n))

invY_Double(px) ==
    CHOOSE r \in {
        IF availableHeight = 0
        THEN DDivInt(FromInt(priceConfig.min.n + priceConfig.max.n), 2)
        ELSE DAdd(FromInt(priceConfig.min.n),
                  DMulInt(DSub(FromInt(1),
                               DDivInt(DSub(px, FromInt(priceConfig.paddingPx.n)), availableHeight)),
                          priceConfig.max.n - priceConfig.min.n))
        : availableHeight \in {height.n - 2 * priceConfig.paddingPx.n}} : TRUE

\* the divisors of the divisions each of the four functions executes
xScaleDivisors ==
    IF timeRange.end.n - timeRange.start.n = 0 THEN {}
    ELSE {timeRange.end.n - timeRange.start.n}
yScaleDivisors ==
    IF priceConfig.max.n - priceConfig.min.n = 0 THEN {2}
    ELSE {priceConfig.max.n - priceConfig.min.n}
invXDivisors == IF width.n = 0 THEN {} ELSE {width.n}
invYDivisors ==
    IF height.n - 2 * priceConfig.paddingPx.n = 0 THEN {2}
    ELSE {height.n - 2 * priceConfig.paddingPx.n}

\* Viewport.pan: the time range and the price configuration after pan
PannedTime(timeDelta) ==
    [start |-> FAdd(timeRange.start, timeDelta), end |-> FAdd(timeRange.end, timeDelta)]
PannedPrice(priceDelta) ==
    IF priceDelta = NoDelta THEN priceConfig
    ELSE [priceConfig EXCEPT !.min = FAdd(@, priceDelta), !.max = FAdd(@, priceDelta)]

\* Viewport.zoom: the time range after zoom(factor, centerX)
ZoomedTime(factor, centerX) ==
    CHOOSE r \in {
        LET currentSpan == getTimeSpan
            newSpan == FDiv(currentSpan, factor)
            timeBefore == FSub(centerTime, timeRange.start)
            timeAfter == FSub(timeRange.end, centerTime)
            totalTime == FAdd(timeBefore, timeAfter)
            ratioStart == FDiv(timeBefore, totalTime)
            ratioEnd == FDiv(timeAfter, totalTime)
        IN [start |-> FSub(centerTime, FMul(newSpan, ratioStart)),
            end |-> FAdd(centerTime, FMul(newSpan, ratioEnd))]
        : centerTime \in {invX(centerX)}} : TRUE

(***************************************************************************)
(* Viewport.zoom as the doubles compute it.  Here the time range is a pair *)
(* of doubles (after a zoom its ends are not whole numbers); the width and *)
(* the pixel are whole numbers and the factor is a double.                 *)
(***************************************************************************)
\* getTimeSpan() and invX(px) of a viewport whose time range is time
TimeSpan_Double(time) == DSub(time.end, time.start)
invX_At(time, px) ==
    IF width.n = 0 THEN time.start
    ELSE DAdd(time.start, DMul(DDivInt(FromInt(px), width.n), TimeSpan_Double(time)))

\* a zoom about the middle of the range, whatever centerX is
ZoomedTime_Double_AboutMiddle(time, factor, centerX) ==
    CHOOSE r \in {
        [start |-> DSub(c.middle, DDivInt(c.newSpan, 2)),
         end |-> DAdd(c.middle, DDivInt(c.newSpan, 2))]
        : c \in {[middle |-> DDivInt(DAdd(time.start, time.end), 2),
                  newSpan |-> DDiv(TimeSpan_Double(time), factor)]}} : TRUE
\* Viewport.zoom: the time range after zoom(factor, centerX) on the range time
ZoomedTime_Double(time, factor, centerX) ==
    CHOOSE r \in {
        [start |-> DSub(c.centerTime, DMul(c.newSpan, c.ratioStart)),
         end |-> DAdd(c.centerTime, DMul(c.newSpan, c.ratioEnd))]
        : c \in {[centerTime |-> b.centerTime,
                  newSpan |-> DDiv(b.currentSpan, factor),
                  ratioStart |-> DDiv(b.timeBefore, b.totalTime),
                  ratioEnd |-> DDiv(b.timeAfter, b.totalTime)]
        : b \in {[centerTime |-> a.centerTime,
                  currentSpan |-> TimeSpan_Double(time),
                  timeBefore |-> a.timeBefore,
                  timeAfter |-> a.timeAfter,
                  totalTime |-> DAdd(a.timeBefore, a.timeAfter)]
        : a \in {[centerTime |-> centerTime,
                  timeBefore |-> DSub(centerTime, time.start),
                  timeAfter |-> DSub(time.end, centerTime)]
        : centerTime \in {invX_At(time, centerX)}}}}} : TRUE

\* a span clamp that keeps the start of the range, not its center
SpanClamped_FromStart(tr, minSpan, maxSpan) ==
    CHOOSE r \in {
        IF FLt(span, minSpan)
        THEN [start |-> tr.start, end |-> FAdd(tr.start, minSpan), span |-> minSpan]
        ELSE IF FGt(span, maxSpan)
        THEN [start |-> tr.start, end |-> FAdd(tr.start, maxSpan), span |-> maxSpan]
        ELSE [start |-> tr.start, end |-> tr.end, span |-> span]
        : span \in {FSub(tr.end, tr.start)}} : TRUE
\* clampTimeRange, "Clamp span": start, end and span after the first block
SpanClamped(tr, minSpan, maxSpan) ==
    CHOOSE r \in {
        IF FLt(c.span, minSpan)
        THEN [start |-> FSub(c.center, FDiv(minSpan, R(2))),
              end |-> FAdd(c.center, FDiv(minSpan, R(2))), span |-> minSpan]
        ELSE IF FGt(c.span, maxSpan)
        THEN [start |-> FSub(c.center, FDiv(maxSpan, R(2))),
              end |-> FAdd(c.center, FDiv(maxSpan, R(2))), span |-> maxSpan]
        ELSE [start |-> tr.start, end |-> tr.end, span |-> c.span]
        : c \in {[span |-> FSub(tr.end, tr.start),
                  center |-> FDiv(FAdd(tr.start, tr.end), R(2))]}} : TRUE

\* a clamp that does not test the end against maxTime
ClampedTime_NoMaxClamp(tr0, minTime, maxTime, minSpan, maxSpan) ==
    CHOOSE r \in {[start |-> s2.start, end |-> s2.end] :
        s2 \in {IF FLt(s1.start, minTime)
                THEN [s1 EXCEPT !.start = minTime, !.end = FAdd(minTime, s1.span)]
                ELSE s1 :
            s1 \in {SpanClamped(tr, minSpan, maxSpan) : tr \in {tr0}}}} : TRUE
\* Viewport.clampTimeRange applied to the range tr0
ClampedTime(tr0, minTime, maxTime, minSpan, maxSpan) ==
    CHOOSE r \in {[start |-> s3.start, end |-> s3.end] :
        s3 \in {IF FGt(s2.end, maxTime)
                THEN [s2 EXCEPT !.end = maxTime, !.start = FSub(maxTime, s2.span)]
                ELSE s2 :
            s2 \in {IF FLt(s1.start, minTime)
                    THEN [s1 EXCEPT !.start = minTime, !.end = FAdd(minTime, s1.span)]
                    ELSE s1 :
                s1 \in {SpanClamped(tr, minSpan, maxSpan) : tr \in {tr0}}}}} : TRUE

(***************************************************************************)
(* The chart's interaction options and layout                              *)
(***************************************************************************)
\* defaultInteractionOptions
Options ==
    [enablePan |-> TRUE, enableZoom |-> TRUE, enableCrosshair |-> TRUE, wheelMode |-> "zoomX",
     minVisibleBars |-> R(10), maxVisibleBars |-> R(1000), zoomSpeed |-> R(1)]
\* layout.chartArea of the model's canvas
ChartArea == [width |-> R(4), height |-> R(4)]
\* dataSourceSubscriptions.size
ConnectedSources == Cardinality(dataSourceSubscriptions)

(***************************************************************************)
(* ZoomHandler and ScrollHandler                                           *)
(***************************************************************************)
\* EventManager.normalizeEvent: the ChartEvent of a DOM event.  The test `event
\* instanceof PointerEvent || event instanceof MouseEvent` comes first, and a DOM
\* WheelEvent is a MouseEvent: the branch that copies deltaX and deltaY is never
\* taken, so both are undefined in every ChartEvent the listeners receive
normalizeEvent(event) == [event EXCEPT !.deltaX = Undefined, !.deltaY = Undefined]
\* event.deltaX ?? 0, event.deltaY ?? 0
OrZero(delta) == IF delta = Undefined THEN 0 ELSE delta

\* ZoomHandler.onWheel: the zoom factor for the deltaY it reads
ZoomFactor(deltaY) ==
    LET zoomDirection == 0 - Sign(deltaY)
        zoomIntensity == FDiv(R(Abs(deltaY)), R(100))
        baseZoom == FAdd(R(1), FMul(FMul(zoomIntensity, Num(1, 10)), Options.zoomSpeed))
    IN IF zoomDirection > 0 THEN baseZoom ELSE FDiv(R(1), baseZoom)

\* ZoomHandler.clampZoom applied to the range tr
clampZoom(tr) ==
    ClampedTime(tr, zoomBounds.minTime, zoomBounds.maxTime,
                FMul(zoomBounds.avgCandleDuration, Options.minVisibleBars),
                FMul(zoomBounds.avgCandleDuration, Options.maxVisibleBars))

\* the time range after ZoomHandler.onWheel: viewport.zoom, then clampZoom
WheelZoomedTime(deltaY, chartX) ==
    IF ~Options.enableZoom THEN timeRange ELSE clampZoom(ZoomedTime(ZoomFactor(deltaY), chartX))

(***************************************************************************)
(* PanHandler                                                              *)
(***************************************************************************)
\* state = null
NullPan ==
    [active |-> FALSE, mode |-> "idle", startX |-> 0, startY |-> 0, lastX |-> 0, lastY |-> 0,
     startTimeRange |-> [start |-> R(0), end |-> R(0)],
     startPriceRange |-> [min |-> R(0), max |-> R(0)]]

getMode == IF panState.active THEN panState.mode ELSE "idle"
isPanning == panState.active

\* onPointerDown: the state it builds
PointerDownState(e) ==
    [active |-> TRUE,
     mode |-> IF e.altKey THEN "panning-price" ELSE "panning-time",
     startX |-> e.chartX, startY |-> e.chartY, lastX |-> e.chartX, lastY |-> e.chartY,
     startTimeRange |-> [start |-> timeRange.start, end |-> timeRange.end],
     startPriceRange |-> [min |-> priceConfig.min, max |-> priceConfig.max]]

\* onPointerMove: the deltas handed to viewport.pan
MoveTimeDelta(e) ==
    IF panState.mode = "panning-time"
    THEN FMul(FNeg(FDiv(R(e.chartX - panState.lastX), width)), getTimeSpan)
    ELSE R(0)
MovePriceDelta(e) ==
    IF panState.mode = "panning-time" THEN NoDelta
    ELSE FMul(FDiv(R(e.chartY - panState.lastY), height), getPriceSpan)

\* a cancel that puts back the time range only
CancelledPrice_Kept == priceConfig
\* onPointerCancel: the price configuration it sets
CancelledPrice ==
    [priceConfig EXCEPT !.min = panState.startPriceRange.min,
                        !.max = panState.startPriceRange.max]
\* onPointerCancel: the time range it sets
CancelledTime == [start |-> panState.startTimeRange.start, end |-> panState.startTimeRange.end]

(***************************************************************************)
(* Crosshair                                                               *)
(***************************************************************************)
\* the initial value of Crosshair.state
NoCrosshair ==
    [x |-> 0, y |-> 0, candle |-> Null, candleIndex |-> 0 - 1, time |-> R(0), price |-> R(0),
     visible |-> FALSE]

\* the loop of snapToCandle over the indices left to check; best is
\* [closestIndex, minDistance].  Number.MAX_VALUE exceeds every finite distance
\* of the model, so "distance < minDistance" holds against it for the finite
\* distances only
RECURSIVE ClosestLoop(_, _, _, _, _)
ClosestLoop(indices, firstVisibleIndex, lastVisibleIndex, time, best) ==
    IF indices = <<>> THEN best
    ELSE LET idx == Head(indices)
             distance == FAbs(FSub(R(ReadAt(ts, idx)), time))
             closer == IF best.minDistance = Infinity
                       THEN isFinite(distance)
                       ELSE FLt(distance, best.minDistance)
         IN ClosestLoop(Tail(indices), firstVisibleIndex, lastVisibleIndex, time,
                        IF idx >= firstVisibleIndex /\ idx <= lastVisibleIndex /\ closer
                        THEN [closestIndex |-> idx, minDistance |-> distance]
                        ELSE best)

\* snapToCandle(time) with a series set: [candle, candleIndex]
snapToCandle(time) ==
    IF length = 0 THEN [candle |-> Null, candleIndex |-> 0 - 1]
    ELSE CHOOSE r \in {
        LET firstVisibleIndex == v[1]
            lastVisibleIndex == v[2]
            searchIndex == v[3]
            indices == <<searchIndex>>
                       \o (IF searchIndex > 0 THEN <<searchIndex - 1>> ELSE <<>>)
                       \o (IF searchIndex < length - 1 THEN <<searchIndex + 1>> ELSE <<>>)
            closestIndex ==
                IF searchIndex # 0 - 1
                THEN ClosestLoop(indices, firstVisibleIndex, lastVisibleIndex, time,
                                 [closestIndex |-> 0 - 1, minDistance |-> Infinity]).closestIndex
                ELSE lastVisibleIndex
        IN IF firstVisibleIndex = 0 - 1 \/ lastVisibleIndex = 0 - 1
           THEN [candle |-> Null, candleIndex |-> 0 - 1]
           ELSE IF closestIndex # 0 - 1
           THEN [candle |-> getCandle(closestIndex), candleIndex |-> closestIndex]
           ELSE [candle |-> Null, candleIndex |-> 0 - 1]
        : v \in {<<firstIndexAtOrAfter(timeRange.start), lastIndexAtOrBefore(timeRange.end),
                   firstIndexAtOrAfter(time)>>}} : TRUE

\* Crosshair.onPointerMove: the state after the event
CrosshairAfterMove(e) ==
    CHOOSE r \in {
        LET snap == snapToCandle(time)
        IN [x |-> e.chartX, y |-> e.chartY, candle |-> snap.candle,
            candleIndex |-> snap.candleIndex, time |-> time, price |-> invY(R(e.chartY)),
            visible |-> TRUE]
        : time \in {invX(R(e.chartX))}} : TRUE

(***************************************************************************)
(* Chart.computeDomainsAndViewport                                         *)
(***************************************************************************)
\* the time domain of the chart's one series
DataTimeDomain ==
    CHOOSE r \in {
        LET min0 == IF dom.isNull THEN Infinity ELSE FMin(Infinity, dom.start)
            max0 == IF dom.isNull THEN NegInfinity ELSE FMax(NegInfinity, dom.end)
            min1 == IF ~isFinite(min0) \/ ~isFinite(max0) THEN R(0) ELSE min0
            max1 == IF ~isFinite(min0) \/ ~isFinite(max0) THEN R(1000) ELSE max0
        IN IF FLt(FSub(max1, min1), R(1))
           THEN [min |-> FSub(min1, R(30000)), max |-> FAdd(max1, R(30000))]
           ELSE [min |-> min1, max |-> max1]
        : dom \in {domainX}} : TRUE

\* the time range the price domain is computed over
DomainTimeRange ==
    CHOOSE r \in {
        IF ~hasInitialViewport THEN [start |-> data.min, end |-> data.max]
        ELSE IF ConnectedSources > 0 /\ FGt(data.max, timeRange.end)
        THEN [start |-> FAdd(timeRange.start, FSub(data.max, timeRange.end)),
              end |-> FAdd(timeRange.end, FSub(data.max, timeRange.end))]
        ELSE [start |-> timeRange.start, end |-> timeRange.end]
        : data \in {DataTimeDomain}} : TRUE

\* the padded price domain
FramePriceRange ==
    CHOOSE r \in {
        LET min0 == IF dom.isNull THEN R(0) ELSE dom.min
            max0 == IF dom.isNull THEN R(100) ELSE dom.max
            pricePadding == FMul(FSub(max0, min0), Num(1, 20))
        IN [min |-> FSub(min0, pricePadding), max |-> FAdd(max0, pricePadding)]
        : dom \in {domainY(DomainTimeRange)}} : TRUE

\* a frame that moves the viewport by the auto-scroll shift
computeDomainsAndViewport_AutoScroll ==
    /\ width' = ChartArea.width
    /\ height' = ChartArea.height
    /\ \E range \in {FramePriceRange} :
           priceConfig' = [min |-> range.min, max |-> range.max, paddingPx |-> R(0)]
    /\ timeRange' = DomainTimeRange
    /\ hasInitialViewport' = TRUE
    /\ UNCHANGED <<panState, zoomBounds, scrollMode, crosshair>>
\* with a viewport: "Update dimensions and price range only"; without one: a
\* new Viewport over the data domain, new handlers and a new Crosshair bound
\* to it (updateInteractionHandlers) and zoomHandler.setDataBounds
computeDomainsAndViewport ==
    /\ width' = ChartArea.width
    /\ height' = ChartArea.height
    /\ \E range \in {FramePriceRange} :
           priceConfig' = [min |-> range.min, max |-> range.max, paddingPx |-> R(0)]
    /\ IF hasInitialViewport
       THEN UNCHANGED <<timeRange, hasInitialViewport, panState, zoomBounds, scrollMode,
                        crosshair>>
       ELSE \E data \in {DataTimeDomain} :
                /\ timeRange' = [start |-> data.min, end |-> data.max]
                /\ hasInitialViewport' = TRUE
                /\ panState' = NullPan
                /\ crosshair' = NoCrosshair
                /\ scrollMode' = wheelMode
                /\ zoomBounds' = [minTime |-> data.min, maxTime |-> data.max,
                                  avgCandleDuration |->
                                      FDiv(FSub(data.max, data.min), R(length))]

(***************************************************************************)
(* PluginManager: the plugins map, in insertion order.                     *)
(* A plugin is identified by its name; HasOnRender and HasOnEvent say      *)
(* which optional hooks the plugin object defines.                         *)
(***************************************************************************)
Plugins == {"a", "b", "c"}
HasOnRender(p) == p \in {"a", "b"}
HasOnEvent(p) == p \in {"a", "c"}

MapHas(m, key) == \E i \in 1..Len(m) : m[i] = key
MapIndex(m, key) == IF MapHas(m, key) THEN CHOOSE i \in 1..Len(m) : m[i] = key ELSE 0
MapDelete(m, key) == SelectSeq(m, LAMBDA k : k # key)
\* a live iterator that has visited the first cur entries, after key is deleted
CursorAfterDelete(m, cur, key) ==
    IF MapIndex(m, key) >= 1 /\ MapIndex(m, key) <= cur THEN cur - 1 ELSE cur

\* install that re-inserts a plugin already present at the end of the map
PluginsAfterInstall_Reinsert(m, p) == Append(MapDelete(m, p), p)
\* PluginManager.install: the map after install(plugin)
PluginsAfterInstall(m, p) == IF MapHas(m, p) THEN m ELSE Append(m, p)
\* PluginManager.uninstall: the map after uninstall(name); onUninstall runs
\* before the delete, so a throwing onUninstall leaves the plugin installed
PluginsAfterUninstall(m, name, throws) ==
    IF ~MapHas(m, name) \/ throws THEN m ELSE MapDelete(m, name)

\* the lifecycle hook due after the given one was invoked
Invoked(hook) == IF hook = "onInstall" THEN "onUninstall" ELSE "onInstall"

\* stamp and clock record the successful installations, for the claims only
install(p) ==
    /\ plugins' = PluginsAfterInstall(plugins, p)
    /\ lifecycle' = IF MapHas(plugins, p) THEN lifecycle
                    ELSE [lifecycle EXCEPT ![p] = Invoked("onInstall")]
    /\ IF MapHas(plugins, p)
       THEN UNCHANGED <<stamp, clock>>
       ELSE stamp' = [stamp EXCEPT ![p] = clock + 1] /\ clock' = clock + 1

uninstall(name, throws) ==
    /\ plugins' = PluginsAfterUninstall(plugins, name, throws)
    /\ lifecycle' = IF MapHas(plugins, name)
                    THEN [lifecycle EXCEPT ![name] = Invoked("onUninstall")]
                    ELSE lifecycle
    /\ stamp' = IF MapHas(plugins, name) /\ ~throws THEN [stamp EXCEPT ![name] = 0] ELSE stamp
    /\ UNCHANGED clock

(***************************************************************************)
(* Chart: render scheduling                                                *)
(***************************************************************************)
RenderPhases ==
    <<"before-render", "after-grid", "after-axes", "after-candles", "after-render">>

\* scheduleRender without the early return on a pending request
scheduleRender_NoGuard ==
    /\ renderScheduled' = TRUE
    /\ rafQueue' = rafQueue + 1
    /\ requests' = Min(requests + 1, MaxRequests)
\* Chart.scheduleRender; requests counts the calls made while the flag is set
scheduleRender ==
    IF renderScheduled
    THEN /\ requests' = Min(requests + 1, MaxRequests)
         /\ UNCHANGED <<renderScheduled, rafQueue>>
    ELSE /\ renderScheduled' = TRUE
         /\ rafQueue' = rafQueue + 1
         /\ requests' = 1

schedVars == <<renderScheduled, rafQueue, requests>>
pluginVars == <<plugins, stamp, clock, lifecycle>>
runVars == <<run, phase, cursor, hookCalls, frameLog, callLog, runModified, frameStatus>>

\* Chart.installPlugin called from outside a frame; a throwing onInstall
\* leaves the plugin in the map and skips the render request
InstallPlugin ==
    \E p \in Plugins, throws \in BOOLEAN :
        /\ chartPc = "idle"
        /\ MapHas(plugins, p) => ~throws
        /\ ~MapHas(plugins, p) => clock < MaxInstalls
        /\ install(p)
        /\ IF throws THEN UNCHANGED schedVars ELSE scheduleRender
        /\ UNCHANGED <<chartPc, runVars>>
        /\ UNCHANGED otherThanChart

UninstallPlugin ==
    \E name \in Plugins, throws \in BOOLEAN :
        /\ chartPc = "idle"
        /\ ~MapHas(plugins, name) => ~throws
        /\ uninstall(name, throws)
        /\ IF throws THEN UNCHANGED schedVars ELSE scheduleRender
        /\ UNCHANGED <<chartPc, runVars>>
        /\ UNCHANGED otherThanChart

\* PluginManager.install(plugin) and uninstall(name) called directly; the hook
\* of a plugin may throw, a call that reaches no hook does not
NoPluginCall == [op |-> "none", name |-> "", had |-> FALSE, threw |-> FALSE, flip |-> FALSE]
PluginCall(op, name, throws) ==
    [op |-> op, name |-> name, had |-> MapHas(plugins, name), threw |-> throws,
     flip |-> ~pluginCall.flip]

ManagerInstall ==
    \E p \in Plugins, throws \in BOOLEAN :
        /\ chartPc = "idle"
        /\ MapHas(plugins, p) => ~throws
        /\ ~MapHas(plugins, p) => clock < MaxInstalls
        /\ install(p)
        /\ pluginCall' = PluginCall("install", p, throws)
        /\ UNCHANGED <<schedVars, chartPc, runVars, storeVars, viewportVars, handlerVars,
                       sourceVars, vpOp, frameVars, crosshair, listenerVars, panCall, walk,
                       scaled, wheelVars, replay, wiring, enableCrosshair, renderer>>

ManagerUninstall ==
    \E name \in Plugins, throws \in BOOLEAN :
        /\ chartPc = "idle"
        /\ ~MapHas(plugins, name) => ~throws
        /\ uninstall(name, throws)
        /\ pluginCall' = PluginCall("uninstall", name, throws)
        /\ UNCHANGED <<schedVars, chartPc, runVars, storeVars, viewportVars, handlerVars,
                       sourceVars, vpOp, frameVars, crosshair, listenerVars, panCall, walk,
                       scaled, wheelVars, replay, wiring, enableCrosshair, renderer>>

ManagerNext == ManagerInstall \/ ManagerUninstall

\* a render request from the application, a store listener or an interaction
ScheduleRender ==
    /\ chartPc = "idle"
    /\ scheduleRender
    /\ UNCHANGED <<chartPc, pluginVars, runVars>>
    /\ UNCHANGED otherThanChart

\* the animation frame callback starts: render() up to the first hook loop;
\* without a renderer render() returns at once and the callback clears the flag
FrameTick ==
    /\ chartPc = "idle"
    /\ rafQueue > 0
    /\ rafQueue' = rafQueue - 1
    /\ cursor' = 0
    /\ hookCalls' = 0
    /\ callLog' = <<>>
    /\ runModified' = FALSE
    /\ IF renderer
       THEN /\ chartPc' = "dispatch"
            /\ run' = "render"
            /\ phase' = 1
            /\ frameLog' = <<RenderPhases[1]>>
            /\ frameStatus' = "running"
            /\ UNCHANGED <<renderScheduled, requests>>
       ELSE /\ phase' = 0
            /\ frameLog' = <<>>
            /\ frameStatus' = "completed"
            /\ renderScheduled' = FALSE
            /\ requests' = 0
            /\ UNCHANGED <<chartPc, run>>
    /\ UNCHANGED pluginVars
    /\ UNCHANGED otherThanChart

\* an input event reaches PluginManager.dispatchEvent
DispatchEvent ==
    /\ chartPc = "idle"
    /\ renderer
    /\ chartPc' = "dispatch"
    /\ run' = "event"
    /\ cursor' = 0
    /\ hookCalls' = 0
    /\ callLog' = <<>>
    /\ runModified' = FALSE
    /\ UNCHANGED <<phase, frameLog, frameStatus, schedVars, pluginVars>>
    /\ UNCHANGED otherThanChart

\* executeHooks / dispatchEvent: the loop moves to the next map entry and
\* calls its hook when the plugin defines one
NextHook ==
    /\ chartPc = "dispatch"
    /\ cursor < Len(plugins)
    /\ cursor' = cursor + 1
    /\ LET p == plugins[cursor + 1]
           hasHook == IF run = "render" THEN HasOnRender(p) ELSE HasOnEvent(p)
       IN IF hasHook
          THEN /\ chartPc' = "hook"
               /\ callLog' = Append(callLog, [name |-> p, stamp |-> stamp[p]])
          ELSE UNCHANGED <<chartPc, callLog>>
    /\ hookCalls' = 0
    /\ UNCHANGED <<run, phase, frameLog, runModified, frameStatus, schedVars, pluginVars>>
    /\ UNCHANGED otherThanChart

HookReturn ==
    /\ chartPc = "hook"
    /\ chartPc' = "dispatch"
    /\ UNCHANGED <<runVars, schedVars, pluginVars>>
    /\ UNCHANGED otherThanChart

\* the hook raises: nothing in executeHooks, render or the frame callback
\* catches, so the rest of the callback is skipped
HookThrow ==
    /\ chartPc = "hook"
    /\ chartPc' = "idle"
    /\ frameStatus' = IF run = "render" THEN "threw" ELSE frameStatus
    /\ run' = "none"
    /\ UNCHANGED <<phase, cursor, hookCalls, frameLog, callLog, runModified, schedVars, pluginVars>>
    /\ UNCHANGED otherThanChart

HookScheduleRender ==
    /\ chartPc = "hook"
    /\ hookCalls < MaxHookCalls
    /\ hookCalls' = hookCalls + 1
    /\ scheduleRender
    /\ UNCHANGED <<chartPc, run, phase, cursor, frameLog, callLog, runModified, frameStatus, pluginVars>>
    /\ UNCHANGED otherThanChart

HookInstall ==
    \E p \in Plugins :
        /\ chartPc = "hook"
        /\ hookCalls < MaxHookCalls
        /\ ~MapHas(plugins, p) => clock < MaxInstalls
        /\ hookCalls' = hookCalls + 1
        /\ install(p)
        /\ scheduleRender
        /\ runModified' = (runModified \/ ~MapHas(plugins, p))
        /\ UNCHANGED <<chartPc, run, phase, cursor, frameLog, callLog, frameStatus>>
        /\ UNCHANGED otherThanChart

HookUninstall ==
    \E name \in Plugins :
        /\ chartPc = "hook"
        /\ hookCalls < MaxHookCalls
        /\ hookCalls' = hookCalls + 1
        /\ uninstall(name, FALSE)
        /\ scheduleRender
        /\ cursor' = CursorAfterDelete(plugins, cursor, name)
        /\ runModified' = (runModified \/ MapHas(plugins, name))
        /\ UNCHANGED <<chartPc, run, phase, frameLog, callLog, frameStatus>>
        /\ UNCHANGED otherThanChart

\* the phase after whose hooks render() calls a method Crosshair does not
\* define: this.crosshair.setChartAreaOffset is undefined, the call a TypeError
CrosshairPhase == 4
\* render() after the hooks of the after-candles phase, with the crosshair
\* enabled and a Crosshair object (there is one until destroy()): the call of
\* setChartAreaOffset throws
setChartAreaOffsetThrows == phase = CrosshairPhase /\ enableCrosshair /\ renderer

\* executeHooks returned; render() draws and enters the next phase's loop, or
\* throws before the crosshair is drawn: nothing catches, the rest of the
\* frame callback is skipped
PhaseEnd ==
    /\ chartPc = "dispatch"
    /\ run = "render"
    /\ cursor >= Len(plugins)
    /\ phase < Len(RenderPhases)
    /\ IF setChartAreaOffsetThrows
       THEN /\ chartPc' = "idle"
            /\ run' = "none"
            /\ frameStatus' = "threw"
            /\ UNCHANGED <<phase, frameLog, cursor, hookCalls, callLog, runModified>>
       ELSE /\ phase' = phase + 1
            /\ frameLog' = Append(frameLog, RenderPhases[phase + 1])
            /\ cursor' = 0
            /\ hookCalls' = 0
            /\ callLog' = <<>>
            /\ runModified' = FALSE
            /\ UNCHANGED <<chartPc, run, frameStatus>>
    /\ IF phase = 1 THEN computeDomainsAndViewport
       ELSE UNCHANGED <<viewportVars, hasInitialViewport, panState, zoomBounds, scrollMode,
                        crosshair>>
    /\ UNCHANGED <<schedVars, pluginVars>>
    /\ UNCHANGED <<storeVars, downRange, cancelResult, sourceVars, vpOp,
                   dataSourceSubscriptions,
                   listenerVars, panCall, walk, scaled, wheelMode, wheelLog, pluginCall, replay, wiring, enableCrosshair, renderer>>

\* render() returned: the frame callback clears the flag
FrameEnd ==
    /\ chartPc = "dispatch"
    /\ run = "render"
    /\ cursor >= Len(plugins)
    /\ phase = Len(RenderPhases)
    /\ renderScheduled' = FALSE
    /\ requests' = 0
    /\ chartPc' = "idle"
    /\ run' = "none"
    /\ frameStatus' = "completed"
    /\ UNCHANGED <<rafQueue, phase, cursor, hookCalls, frameLog, callLog, runModified, pluginVars>>
    /\ UNCHANGED otherThanChart

EventEnd ==
    /\ chartPc = "dispatch"
    /\ run = "event"
    /\ cursor >= Len(plugins)
    /\ chartPc' = "idle"
    /\ run' = "none"
    /\ UNCHANGED <<phase, cursor, hookCalls, frameLog, callLog, runModified, frameStatus,
                   schedVars, pluginVars>>
    /\ UNCHANGED otherThanChart

\* Chart.destroy() between frames: the frame callback that is pending is
\* cancelled while renderScheduled stays as it is, every data source is
\* disconnected, and the event manager, the renderer, the viewport, the
\* handlers and the crosshair are dropped: no event and no zoom or scroll call
\* reaches a handler afterwards
Destroy ==
    /\ chartPc = "idle"
    /\ rafQueue' = 0
    /\ dataSourceSubscriptions' = {}
    /\ renderer' = FALSE
    /\ UNCHANGED <<renderScheduled, requests, chartPc, pluginVars, runVars, hasInitialViewport,
                   storeVars, viewportVars, handlerVars, sourceVars, vpOp, crosshair,
                   listenerVars, panCall, walk, scaled, wheelVars, pluginCall, replay, wiring,
                   enableCrosshair>>

\* the chart and its ScrollHandler constructed with options.interaction.wheelMode
\* = mode; no wheel event yet
NoWheelEvent == [deltaX |-> 0, deltaY |-> 0, chartX |-> 0]
WheelInit(mode) ==
    /\ wheelMode = mode
    /\ scrollMode = mode
    /\ wheelLog = [set |-> mode, by |-> "constructor", e |-> NoWheelEvent, applied |-> {},
                   flip |-> FALSE]

(***************************************************************************)
(* Chart: the listeners it registers with its EventManager, and the        *)
(* viewport its interaction handlers are constructed with.  Objects are    *)
(* told apart by the order of their construction.                          *)
(***************************************************************************)
\* WheelMode
WheelModes == {"zoomX", "scrollX", "blend"}
\* allEventTypes
ChartEventTypes ==
    {"pointerdown", "pointermove", "pointerup", "pointercancel", "wheel", "mouseleave",
     "dblclick", "click"}
\* options.interaction merged over defaultInteractionOptions
InteractionOptions ==
    [enablePan : BOOLEAN, enableZoom : BOOLEAN, enableCrosshair : BOOLEAN, wheelMode : WheelModes]
DefaultInteraction ==
    [enablePan |-> Options.enablePan, enableZoom |-> Options.enableZoom,
     enableCrosshair |-> Options.enableCrosshair, wheelMode |-> Options.wheelMode]
\* this.viewport = null, and the tempViewport of setupInteraction
NullViewport == 0
TempViewport == 1

\* the listeners setupInteraction registers for an event type, in the order of its
\* eventManager.on calls: each is a new closure, named by what it calls
RegisteredFor(options, type) ==
    (IF options.enablePan
        /\ type \in {"pointerdown", "pointermove", "pointerup", "pointercancel"}
     THEN <<"pan">> ELSE <<>>)
    \o (IF options.enableCrosshair /\ type \in {"pointermove", "mouseleave"}
        THEN <<"crosshair">> ELSE <<>>)
    \o <<"plugins">>
    \o (IF type = "wheel" THEN <<"wheel">> ELSE <<>>)

\* the handler objects constructed with the viewport v
HandlersOf(w, v) ==
    [w EXCEPT !.panHandler = [viewport |-> v, isPanning |-> FALSE],
              !.zoomHandler = [viewport |-> v],
              !.scrollHandler = [viewport |-> v, wheelMode |-> w.options.wheelMode],
              !.crosshair = [viewport |-> v],
              !.crosshairRenderer = [viewport |-> v]]

\* the chart after initialize(): setupInteraction has run and scheduleRender was
\* called, one frame callback is requested
setupInteraction(options) ==
    HandlersOf(
        [options |-> options,
         handlers |-> [type \in ChartEventTypes |-> RegisteredFor(options, type)],
         seriesList |-> 0,
         listening |-> FALSE,
         viewport |-> NullViewport,
         created |-> 1,
         hasInitialViewport |-> FALSE,
         renderScheduled |-> TRUE,
         frames |-> 1,
         renderer |-> TRUE,
         panHandler |-> <<>>, zoomHandler |-> <<>>, scrollHandler |-> <<>>,
         crosshair |-> <<>>, crosshairRenderer |-> <<>>,
         op |-> "new", calls |-> <<>>],
        TempViewport)

\* an updateInteractionHandlers that keeps the crosshair it has
updateInteractionHandlers_KeepsCrosshair(w) ==
    IF w.viewport = NullViewport THEN w
    ELSE [HandlersOf(w, w.viewport) EXCEPT !.crosshair = w.crosshair]

\* an updateInteractionHandlers that registers the wheel listener for the new handlers
updateInteractionHandlers_Registers(w) ==
    IF w.viewport = NullViewport THEN w
    ELSE [HandlersOf(w, w.viewport) EXCEPT !.handlers["wheel"] = Append(@, "wheel")]

updateInteractionHandlers(w) ==
    IF w.viewport = NullViewport THEN w ELSE HandlersOf(w, w.viewport)

\* this.viewport = new Viewport(...)
NewViewport(w) == [w EXCEPT !.created = @ + 1, !.viewport = w.created + 1]

\* computeDomainsAndViewport, as far as it replaces the viewport and the handlers
computeDomainsAndViewportRefs(w) ==
    IF w.seriesList = 0
    THEN IF w.viewport = NullViewport THEN updateInteractionHandlers(NewViewport(w)) ELSE w
    ELSE IF w.viewport = NullViewport \/ ~w.hasInitialViewport
         THEN updateInteractionHandlers([NewViewport(w) EXCEPT !.hasInitialViewport = TRUE])
         ELSE w

\* Chart.scheduleRender: a frame callback is requested unless the flag is set
Scheduled(w) ==
    IF w.renderScheduled THEN w ELSE [w EXCEPT !.renderScheduled = TRUE, !.frames = @ + 1]
Requested(w, name) == [Scheduled(w) EXCEPT !.op = name]

\* chart.addSeries(series): the onChange listener it registers is never removed
addSeries(w) ==
    Requested([w EXCEPT !.seriesList = @ + 1, !.listening = TRUE], "addSeries")

\* the frame callback of scheduleRender: render(), then renderScheduled = false;
\* render() returns at once without a renderer, and with the crosshair enabled
\* it throws after computeDomainsAndViewport, so that the flag stays set
frame(w) ==
    IF ~w.renderer
    THEN [w EXCEPT !.frames = @ - 1, !.renderScheduled = FALSE, !.op = "frame"]
    ELSE [computeDomainsAndViewportRefs(w) EXCEPT
              !.frames = @ - 1,
              !.renderScheduled = IF w.options.enableCrosshair THEN @ ELSE FALSE,
              !.op = "frame"]

WiringFrame ==
    /\ wiring.frames > 0
    /\ \E w \in {frame(wiring)} :
           /\ w.created <= MaxViewports
           /\ wiring' = w
    /\ UNCHANGED otherThanWiring

WiringAddSeries ==
    /\ wiring.seriesList < MaxSeries
    /\ wiring' = addSeries(wiring)
    /\ UNCHANGED otherThanWiring

\* chart.clearSeries()
WiringClearSeries ==
    /\ wiring' = Requested([wiring EXCEPT !.seriesList = 0], "clearSeries")
    /\ UNCHANGED otherThanWiring

\* chart.resetViewport()
WiringResetViewport ==
    /\ wiring' = Requested([wiring EXCEPT !.hasInitialViewport = FALSE,
                                          !.viewport = NullViewport], "resetViewport")
    /\ UNCHANGED otherThanWiring

\* a series that was handed to addSeries changes, whether or not clearSeries or
\* destroy has dropped it since: its listener calls scheduleRender
WiringDataUpdate ==
    /\ wiring.listening
    /\ wiring' = Requested(wiring, "data")
    /\ UNCHANGED otherThanWiring

\* chart.destroy(): the pending frame callback is cancelled, the flag stays as it
\* is; EventManager.destroy removes the listeners; the series, the viewport,
\* the handlers and the renderer are dropped
WiringDestroy ==
    /\ wiring' = [wiring EXCEPT !.frames = 0,
                                !.handlers = [type \in ChartEventTypes |-> <<>>],
                                !.seriesList = 0,
                                !.viewport = NullViewport,
                                !.panHandler = <<>>, !.zoomHandler = <<>>,
                                !.scrollHandler = <<>>, !.crosshair = <<>>,
                                !.crosshairRenderer = <<>>,
                                !.renderer = FALSE,
                                !.op = "destroy"]
    /\ UNCHANGED otherThanWiring

\* chart.setWheelMode(mode)
WiringSetWheelMode ==
    \E mode \in WheelModes :
        /\ wiring' = [wiring EXCEPT !.options.wheelMode = mode,
                                    !.scrollHandler =
                                        IF wiring.renderer THEN [@ EXCEPT !.wheelMode = mode]
                                        ELSE @,
                                    !.op = "setWheelMode"]
        /\ UNCHANGED otherThanWiring

\* the DOM events of the canvas: pointer and mouse events, which have a button
\* and no deltas, and wheel events with the larger delta on either axis
CanvasEvents ==
    {[type |-> t, button |-> b, deltaX |-> Undefined, deltaY |-> Undefined] :
        t \in ChartEventTypes \ {"wheel"}, b \in {0, 2}}
    \cup {[type |-> "wheel", button |-> 0, deltaX |-> d[1], deltaY |-> d[2]] :
              d \in {<<0, 100>>, <<100, 10>>}}
\* the handlers an application registers with chart.on
AppHandlers == {"h"}
\* the event types the application registers them for
AppEventTypes == {"wheel"}

Calls(w, name) == [w EXCEPT !.calls = Append(@, name)]
\* the onUpdate callback of a handler: scheduleRender
Updated(w) == Scheduled(w)

\* scrollHandler.onWheel(e) returns true
WiringScrollHandled(w, e) ==
    \/ w.scrollHandler.wheelMode = "scrollX"
    \/ w.scrollHandler.wheelMode = "blend" /\ Abs(OrZero(e.deltaX)) > Abs(OrZero(e.deltaY))

\* one listener of the event manager, called with the ChartEvent e: a listener
\* of setupInteraction, or a handler of the application, which returns
Listener(w, name, e) ==
    IF name \in AppHandlers THEN Calls(w, name)
    ELSE IF name = "pan"
    THEN IF e.type = "pointerdown"
         THEN [Calls(w, "panHandler") EXCEPT
                   !.panHandler.isPanning = (e.button = 0) \/ w.panHandler.isPanning]
         ELSE IF ~w.panHandler.isPanning THEN w
         ELSE IF e.type = "pointermove" THEN Updated(Calls(w, "panHandler"))
         ELSE IF e.type = "pointerup"
         THEN [Calls(w, "panHandler") EXCEPT !.panHandler.isPanning = FALSE]
         ELSE [Updated(Calls(w, "panHandler")) EXCEPT !.panHandler.isPanning = FALSE]
    ELSE IF name = "crosshair"
    THEN IF e.type = "pointermove" /\ w.panHandler.isPanning THEN w
         ELSE Updated(Calls(w, "crosshair"))
    ELSE IF name = "plugins" THEN Calls(w, "plugins")
    ELSE IF w.options.wheelMode = "zoomX"
    THEN (IF w.options.enableZoom THEN Updated(Calls(w, "zoomHandler"))
          ELSE Calls(w, "zoomHandler"))
    ELSE IF WiringScrollHandled(w, e) THEN Updated(Calls(w, "scrollHandler"))
    ELSE IF w.options.enableZoom THEN Updated(Calls(Calls(w, "scrollHandler"), "zoomHandler"))
    ELSE Calls(Calls(w, "scrollHandler"), "zoomHandler")

\* EventManager.dispatch: for (const handler of handlers) handler(event)
RECURSIVE dispatch(_, _, _)
dispatch(w, handlers, e) ==
    IF handlers = <<>> THEN w
    ELSE dispatch(Listener(w, Head(handlers), e), Tail(handlers), e)

\* a DOM event on the canvas, while the EventManager listens to it:
\* normalizeEvent, then dispatch
WiringEvent ==
    \E event \in CanvasEvents :
        /\ wiring.renderer
        /\ wiring' = dispatch([wiring EXCEPT !.op = event.type, !.calls = <<>>],
                              wiring.handlers[event.type], normalizeEvent(event))
        /\ UNCHANGED otherThanWiring

\* chart.on(type, handler) -> EventManager.on: the handler joins the Set of the
\* type, at its end unless it is a member; nothing happens after destroy()
WiringOn ==
    \E type \in AppEventTypes, handler \in AppHandlers :
        /\ wiring.renderer
        /\ wiring' = [wiring EXCEPT
                          !.handlers[type] = IF MapHas(@, handler) THEN @ ELSE Append(@, handler),
                          !.op = "on"]
        /\ UNCHANGED otherThanWiring

\* chart.off(type, handler) -> EventManager.off: the handler leaves the Set
WiringOff ==
    \E type \in AppEventTypes, handler \in AppHandlers :
        /\ wiring.renderer
        /\ wiring' = [wiring EXCEPT !.handlers[type] = MapDelete(@, handler), !.op = "off"]
        /\ UNCHANGED otherThanWiring

WiringNext ==
    \/ WiringFrame \/ WiringAddSeries \/ WiringClearSeries \/ WiringResetViewport
    \/ WiringDataUpdate \/ WiringSetWheelMode \/ WiringEvent \/ WiringOn \/ WiringOff
    \/ WiringDestroy

\* the plugin manager of a chart constructed without plugins, between frames
NoPlugins ==
    /\ pluginCall = NoPluginCall
    /\ plugins = <<>>
    /\ stamp = [p \in Plugins |-> 0]
    /\ clock = 0
    /\ lifecycle = [p \in Plugins |-> "onInstall"]
    /\ chartPc = "idle"
    /\ run = "none"
    /\ cursor = 0
    /\ hookCalls = 0
    /\ callLog = <<>>
    /\ runModified = FALSE
    /\ renderer = TRUE

\* the frame scheduler before the first frame, after n calls of scheduleRender
\* (n >= 1): the first one has requested the frame callback
FrameRequested(n) ==
    /\ renderScheduled = TRUE
    /\ rafQueue = 1
    /\ requests = n
    /\ phase = 0
    /\ frameLog = <<>>
    /\ frameStatus = "none"

\* the frame scheduler when the constructor returns: initialize() ends with
\* scheduleRender()
NewScheduler == NoPlugins /\ FrameRequested(1)

\* new Chart(container, {interaction: options}) has returned
NewChart(options) ==
    /\ NewScheduler
    /\ enableCrosshair = options.enableCrosshair
    /\ wiring = setupInteraction(options)

\* new Chart(...), then chart.addSeries(series): its scheduleRender finds the
\* flag set
SeriesAdded(options) ==
    /\ NoPlugins /\ FrameRequested(2)
    /\ enableCrosshair = options.enableCrosshair
    /\ wiring = addSeries(setupInteraction(options))

\* the chart after addSeries and its first frame: with the crosshair enabled the
\* frame has thrown after four phases and the flag is set with no frame
\* callback requested, otherwise the frame has completed
FirstFrameDone(options) ==
    /\ NoPlugins
    /\ rafQueue = 0
    /\ IF options.enableCrosshair
       THEN /\ renderScheduled = TRUE
            /\ requests = 2
            /\ phase = CrosshairPhase
            /\ frameLog = SubSeq(RenderPhases, 1, CrosshairPhase)
            /\ frameStatus = "threw"
       ELSE /\ renderScheduled = FALSE
            /\ requests = 0
            /\ phase = Len(RenderPhases)
            /\ frameLog = RenderPhases
            /\ frameStatus = "completed"
    /\ enableCrosshair = options.enableCrosshair
    /\ wiring = frame(addSeries(setupInteraction(options)))

\* the interaction options with the crosshair enabled or not
WithCrosshair(enabled) == [DefaultInteraction EXCEPT !.enableCrosshair = enabled]

\* the chart constructed with the default interaction options, after addSeries
\* and its first frame
ChartInit == FirstFrameDone(DefaultInteraction) /\ WheelInit(Options.wheelMode)

\* the same chart constructed with the crosshair enabled or disabled
RenderedChart ==
    /\ \E enabled \in BOOLEAN : FirstFrameDone(WithCrosshair(enabled))
    /\ WheelInit(Options.wheelMode)

ChartNext ==
    \/ InstallPlugin \/ UninstallPlugin \/ ScheduleRender \/ FrameTick \/ DispatchEvent
    \/ NextHook \/ HookReturn \/ HookThrow \/ HookScheduleRender \/ HookInstall
    \/ HookUninstall \/ PhaseEnd \/ FrameEnd \/ EventEnd \/ Destroy

(***************************************************************************)
(* Input events and interaction calls, as the chart's listeners handle     *)
(* them.  They are handled between frames.                                 *)
(***************************************************************************)
PointerPos == {[chartX |-> 0, chartY |-> 0], [chartX |-> 4, chartY |-> 4]}
PointerEvents ==
    {[button |-> b, altKey |-> k, chartX |-> p.chartX, chartY |-> p.chartY] :
        b \in {0, 2}, k \in BOOLEAN, p \in PointerPos}
\* DOM wheel events whose deltaY asks for a zoom by 2 or by 1/2
WheelEvents ==
    {[deltaX |-> 0, deltaY |-> dy, chartX |-> x] : dy \in {0 - 1000, 1000}, x \in {0, 4}}
ScrollAmounts == {R(1)}
\* DOM wheel events with a horizontal delta, whose deltas ask for zooms by 2,
\* 1/2 and 1 and for scrolls by half a span, one span, ten spans and by nothing
BlendEvents ==
    {[deltaX |-> dx, deltaY |-> dy, chartX |-> 4] :
        dx \in {0 - 100, 0, 100, 1000}, dy \in {0 - 1000, 0 - 50, 0, 50, 1000}}

\* finite endpoints stay within the bounds of the model
InBounds(tr, pc) ==
    /\ isFinite(tr.start) => Abs(tr.start.n) <= MaxAbsTime * tr.start.d
    /\ isFinite(tr.end) => Abs(tr.end.n) <= MaxAbsTime * tr.end.d
    /\ isFinite(pc.min) => Abs(pc.min.n) <= MaxAbsPrice * pc.min.d
    /\ isFinite(pc.max) => Abs(pc.max.n) <= MaxAbsPrice * pc.max.d

\* what the model remembers of the viewport at a primary pointer-down
RangeNow == [timeRange |-> timeRange, min |-> priceConfig.min, max |-> priceConfig.max]

PointerDown ==
    \E e \in PointerEvents :
        /\ chartPc = "idle"
        /\ renderer
        /\ IF Options.enablePan /\ e.button = 0
           THEN panState' = PointerDownState(e) /\ downRange' = RangeNow
           ELSE UNCHANGED <<panState, downRange>>
        /\ cancelResult' = "none"
        /\ UNCHANGED <<viewportVars, zoomBounds, chartVars, storeVars, sourceVars, vpOp, frameVars, crosshair, listenerVars, panCall, walk, scaled, wheelVars, pluginCall, replay, wiring, enableCrosshair, renderer>>

PointerMove ==
    \E e \in PointerPos :
        /\ chartPc = "idle"
        /\ renderer
        /\ IF Options.enablePan /\ isPanning
           THEN /\ \E newTime \in {PannedTime(MoveTimeDelta(e))},
                      newPrice \in {PannedPrice(MovePriceDelta(e))} :
                       /\ InBounds(newTime, newPrice)
                       /\ timeRange' = newTime
                       /\ priceConfig' = newPrice
                /\ panState' = [panState EXCEPT !.lastX = e.chartX, !.lastY = e.chartY]
                /\ scheduleRender
                /\ UNCHANGED crosshair
           ELSE /\ UNCHANGED <<timeRange, priceConfig, panState>>
                /\ IF enableCrosshair
                   THEN crosshair' = CrosshairAfterMove(e) /\ scheduleRender
                   ELSE UNCHANGED <<crosshair, schedVars>>
        /\ cancelResult' = "none"
        /\ UNCHANGED <<width, height, zoomBounds, downRange, chartPc, pluginVars, runVars, storeVars, sourceVars, vpOp, frameVars, listenerVars, panCall, walk, scaled, wheelVars, pluginCall, replay, wiring, enableCrosshair, renderer>>

PointerUp ==
    /\ chartPc = "idle"
    /\ renderer
    /\ panState' = IF Options.enablePan /\ isPanning THEN NullPan ELSE panState
    /\ cancelResult' = "none"
    /\ UNCHANGED <<viewportVars, zoomBounds, downRange, chartVars, storeVars, sourceVars, vpOp, frameVars, crosshair, listenerVars, panCall, walk, scaled, wheelVars, pluginCall, replay, wiring, enableCrosshair, renderer>>

PointerCancel ==
    /\ chartPc = "idle"
    /\ renderer
    /\ IF Options.enablePan /\ isPanning
       THEN /\ timeRange' = CancelledTime
            /\ priceConfig' = CancelledPrice
            /\ panState' = NullPan
            /\ scheduleRender
            /\ cancelResult' =
                   IF timeRange # downRange.timeRange
                      /\ (priceConfig.min # downRange.min \/ priceConfig.max # downRange.max)
                   THEN "changed" ELSE "unchanged"
       ELSE /\ UNCHANGED <<timeRange, priceConfig, panState, schedVars>>
            /\ cancelResult' = "none"
    /\ UNCHANGED <<width, height, zoomBounds, downRange, chartPc, pluginVars, runVars, storeVars, sourceVars, vpOp, frameVars, crosshair, listenerVars, panCall, walk, scaled, wheelVars, pluginCall, replay, wiring, enableCrosshair, renderer>>

\* ScrollHandler.onWheel returns true: it has scrolled
ScrollHandled(e) ==
    \/ scrollMode = "scrollX"
    \/ scrollMode = "blend" /\ Abs(OrZero(e.deltaX)) > Abs(OrZero(e.deltaY))
\* ScrollHandler.scrollTime
ScrolledTime(delta) == PannedTime(FMul(FMul(R(delta), Num(1, 100)), getTimeSpan))

\* the handlers that act on a wheel event: the wheel listener sends it to the
\* ZoomHandler in mode zoomX, and in the modes scrollX and blend to the
\* ScrollHandler and, when that returns false, to the ZoomHandler
WheelHandlers(e) ==
    IF wheelMode = "zoomX" THEN (IF Options.enableZoom THEN {"zoom"} ELSE {})
    ELSE IF wheelMode \in {"scrollX", "blend"}
    THEN (IF ScrollHandled(e) THEN {"scroll"}
          ELSE IF Options.enableZoom THEN {"zoom"} ELSE {})
    ELSE {}

\* the time range after the handlers have acted
WheelTime(e, handlers) ==
    IF "scroll" \in handlers
    THEN ScrolledTime(IF scrollMode = "scrollX" THEN OrZero(e.deltaY) ELSE OrZero(e.deltaX))
    ELSE IF "zoom" \in handlers THEN WheelZoomedTime(OrZero(e.deltaY), R(e.chartX))
    ELSE timeRange

\* the wheel listener of the chart, for the ChartEvent e
WheelListener(e) ==
    /\ chartPc = "idle"
    /\ renderer
    /\ \E handlers \in {WheelHandlers(e)} :
           /\ \E newTime \in {WheelTime(e, handlers)} :
                  /\ InBounds(newTime, priceConfig)
                  /\ timeRange' = newTime
           /\ IF handlers # {} THEN scheduleRender ELSE UNCHANGED schedVars
    /\ cancelResult' = "none"
    /\ UNCHANGED <<priceConfig, width, height, panState, zoomBounds, downRange,
                   chartPc, pluginVars, runVars, storeVars, sourceVars, vpOp, frameVars,
                   crosshair, listenerVars, panCall, walk, scaled, wheelMode, scrollMode, pluginCall, replay, wiring, enableCrosshair, renderer>>

\* a DOM wheel event on the canvas: normalizeEvent, then the wheel listener
Wheel ==
    \E event \in WheelEvents : WheelListener(normalizeEvent(event)) /\ UNCHANGED wheelLog

\* DOM wheel events with both deltas, larger, smaller and equal in magnitude:
\* normalizeEvent, then the wheel listener; the ends of the range keep small
\* denominators, and wheelLog records the DOM event and the handlers that acted
WheelBothAxes ==
    \E event \in BlendEvents :
        /\ WheelListener(normalizeEvent(event))
        /\ timeRange'.start.d <= MaxDenominator /\ timeRange'.end.d <= MaxDenominator
        /\ wheelLog' = [wheelLog EXCEPT !.e = event,
                                        !.applied = WheelHandlers(normalizeEvent(event)),
                                        !.flip = ~wheelLog.flip]

\* Chart.setWheelMode(mode) -> ScrollHandler.setWheelMode, while the chart has
\* its ScrollHandler
SetWheelMode ==
    \E mode \in WheelModes :
        /\ chartPc = "idle"
        /\ wheelMode' = mode
        /\ scrollMode' = IF renderer THEN mode ELSE scrollMode
        /\ wheelLog' = [wheelLog EXCEPT !.set = mode, !.by = "setWheelMode"]
        /\ UNCHANGED <<viewportVars, handlerVars, chartVars, storeVars, sourceVars, vpOp,
                       frameVars, crosshair, listenerVars, panCall, walk, scaled, pluginCall, replay, wiring, enableCrosshair, renderer>>

WheelNext == WheelBothAxes \/ SetWheelMode

\* Chart.scrollLeft(amount)
ScrollLeft ==
    \E amount \in ScrollAmounts :
        /\ chartPc = "idle"
        /\ renderer
        /\ \E newTime \in {PannedTime(FMul(FNeg(amount), getTimeSpan))} :
               /\ InBounds(newTime, priceConfig)
               /\ timeRange' = newTime
        /\ scheduleRender
        /\ cancelResult' = "none"
        /\ UNCHANGED <<priceConfig, width, height, panState, zoomBounds, downRange,
                       chartPc, pluginVars, runVars, storeVars, sourceVars, vpOp, frameVars, crosshair, listenerVars, panCall, walk, scaled, wheelVars, pluginCall, replay, wiring, enableCrosshair, renderer>>

\* Chart.scrollRight(amount)
ScrollRight ==
    \E amount \in ScrollAmounts :
        /\ chartPc = "idle"
        /\ renderer
        /\ \E newTime \in {PannedTime(FMul(amount, getTimeSpan))} :
               /\ InBounds(newTime, priceConfig)
               /\ timeRange' = newTime
        /\ scheduleRender
        /\ cancelResult' = "none"
        /\ UNCHANGED <<priceConfig, width, height, panState, zoomBounds, downRange,
                       chartPc, pluginVars, runVars, storeVars, sourceVars, vpOp, frameVars, crosshair, listenerVars, panCall, walk, scaled, wheelVars, pluginCall, replay, wiring, enableCrosshair, renderer>>

\* a whole animation frame of a chart without plugins: the hook loops are
\* empty, render() recomputes the viewport and the callback clears the flag;
\* with the crosshair enabled render() throws after the fourth loop and the
\* flag stays set; without a renderer render() returns at once
RenderFrame ==
    /\ chartPc = "idle"
    /\ rafQueue > 0
    /\ plugins = <<>>
    /\ rafQueue' = rafQueue - 1
    /\ run' = "none"
    /\ cursor' = 0
    /\ hookCalls' = 0
    /\ callLog' = <<>>
    /\ runModified' = FALSE
    /\ cancelResult' = "none"
    /\ IF ~renderer
       THEN /\ UNCHANGED <<viewportVars, hasInitialViewport, panState, zoomBounds, scrollMode,
                          crosshair>>
            /\ phase' = 0
            /\ frameLog' = <<>>
            /\ frameStatus' = "completed"
            /\ renderScheduled' = FALSE
            /\ requests' = 0
       ELSE /\ computeDomainsAndViewport
            /\ IF enableCrosshair
               THEN /\ phase' = CrosshairPhase
                    /\ frameLog' = SubSeq(RenderPhases, 1, CrosshairPhase)
                    /\ frameStatus' = "threw"
                    /\ UNCHANGED <<renderScheduled, requests>>
               ELSE /\ phase' = Len(RenderPhases)
                    /\ frameLog' = RenderPhases
                    /\ frameStatus' = "completed"
                    /\ renderScheduled' = FALSE
                    /\ requests' = 0
    /\ UNCHANGED <<chartPc, pluginVars, downRange, storeVars, sourceVars, vpOp,
                   dataSourceSubscriptions,
                   listenerVars, panCall, walk, scaled, wheelMode, wheelLog, pluginCall, replay, wiring, enableCrosshair, renderer>>

(***************************************************************************)
(* RandomWalkSource: the candle it builds.  Prices, volumes and times are   *)
(* whole numbers; Math.random() is a choice among the steps of WalkChanges  *)
(* and WalkVolumes.                                                         *)
(***************************************************************************)
\* config.candleDuration and config.initialPrice the source is constructed with
CandleDuration == 2
InitialPrice == 2
\* the candle durations updateConfig sets
CandleDurations == {CandleDuration, 2 * CandleDuration}
\* (Math.random() - 0.5) * 2 * volatility, and Math.random() * baseVolume * 0.2
WalkChanges == {0 - 1, 0, 1}
WalkVolumes == {0, 1}
\* the time that passes between two timer callbacks
Elapsed == 0..(2 * CandleDuration + 1)

\* the source after its constructor, at time 0
NewWalk ==
    [running |-> FALSE, candle |-> Null, price |-> InitialPrice, now |-> 0,
     candleDuration |-> CandleDuration, subscribers |-> 0]

\* a candle start taken from the clock whether or not a candle is open
candleStart_FromClock(w, now) == (now \div w.candleDuration) * w.candleDuration

\* generateUpdate: the start of the new candle
candleStart(w, now) ==
    IF ~w.candle.isNull THEN w.candle.ts + w.candleDuration
    ELSE (now \div w.candleDuration) * w.candleDuration

\* generateUpdate at time now with the random numbers change and traded: the
\* fields currentCandle and currentPrice it leaves
generateUpdate(w, now, change, traded) ==
    LET needNewCandle == w.candle.isNull \/ now - w.candle.ts >= w.candleDuration
        current == IF needNewCandle
                   THEN [isNull |-> FALSE, ts |-> candleStart(w, now), open |-> w.price,
                         high |-> w.price, low |-> w.price, close |-> w.price, volume |-> 0]
                   ELSE w.candle
        currentPrice == Max(1, w.price + change)
    IN [w EXCEPT !.now = now,
                 !.price = currentPrice,
                 !.candle = [isNull |-> FALSE, ts |-> current.ts, open |-> current.open,
                             high |-> Max(current.high, currentPrice),
                             low |-> Min(current.low, currentPrice),
                             close |-> currentPrice,
                             volume |-> current.volume + traded]]

WalkUnchanged ==
    UNCHANGED <<storeVars, chartVars, viewportVars, handlerVars, sourceVars, vpOp, frameVars,
                crosshair, listenerVars, panCall, scaled, wheelVars, pluginCall, replay, wiring, enableCrosshair, renderer>>

\* start(): returns at once when the source is running
startWalk(w) == IF w.running THEN w ELSE [w EXCEPT !.running = TRUE, !.candle = Null]
\* stop(): returns at once when the source is not running
stopWalk(w) == IF ~w.running THEN w ELSE [w EXCEPT !.running = FALSE, !.candle = Null]

\* start()
WalkStart ==
    /\ ~walk.running
    /\ walk' = startWalk(walk)
    /\ WalkUnchanged

\* stop()
WalkStop ==
    /\ walk.running
    /\ walk' = stopWalk(walk)
    /\ WalkUnchanged

\* subscribe(callback): the first subscriber starts the source
WalkSubscribe ==
    /\ walk.subscribers < MaxWalkSubscribers
    /\ \E w \in {[walk EXCEPT !.subscribers = @ + 1]} :
           walk' = IF w.subscribers = 1 THEN startWalk(w) ELSE w
    /\ WalkUnchanged

\* the unsubscribe function of a subscribed callback: the last one stops the source
WalkUnsubscribe ==
    /\ walk.subscribers > 0
    /\ \E w \in {[walk EXCEPT !.subscribers = @ - 1]} :
           walk' = IF w.subscribers = 0 THEN stopWalk(w) ELSE w
    /\ WalkUnchanged

\* updateConfig(config): a running source is stopped, the configuration is
\* replaced, and the source is started again when it has a subscriber; the
\* candle that was open is dropped
WalkUpdateConfig ==
    \E duration \in CandleDurations :
        /\ \E w \in {[stopWalk(walk) EXCEPT !.candleDuration = duration]} :
               walk' = IF walk.running /\ w.subscribers > 0 THEN startWalk(w) ELSE w
        /\ WalkUnchanged

\* the interval fires after some time: generateUpdate
WalkUpdate ==
    \E elapsed \in Elapsed, change \in WalkChanges, traded \in WalkVolumes :
        /\ walk.running
        /\ walk.now + elapsed <= MaxNow
        /\ walk' = generateUpdate(walk, walk.now + elapsed, change, traded)
        /\ walk'.price <= MaxWalkPrice /\ walk'.candle.volume <= MaxWalkVolume
        /\ WalkUnchanged

\* time passes while the source is stopped
WalkWait ==
    /\ ~walk.running
    /\ walk.now < MaxNow
    /\ walk' = [walk EXCEPT !.now = walk.now + 1]
    /\ WalkUnchanged

WalkNext ==
    \/ WalkStart \/ WalkStop \/ WalkSubscribe \/ WalkUnsubscribe \/ WalkUpdateConfig
    \/ WalkUpdate \/ WalkWait

\* the argument centerX of Chart.zoomIn and zoomOut: left out, or a pixel
CenterArgs == {Undefined, 0}
\* ZoomHandler.zoomIn / zoomOut: the time range after viewport.zoom(factor,
\* centerX ?? width / 2) and clampZoom
ProgramZoomedTime(factor, centerX) ==
    clampZoom(ZoomedTime(factor, IF centerX = Undefined THEN FDiv(width, R(2)) ELSE R(centerX)))

\* Chart.zoomIn(centerX)
ZoomIn ==
    \E centerX \in CenterArgs :
        /\ chartPc = "idle"
        /\ renderer
        /\ \E newTime \in {ProgramZoomedTime(Num(6, 5), centerX)} :
               /\ InBounds(newTime, priceConfig)
               /\ newTime.start.d <= MaxDenominator /\ newTime.end.d <= MaxDenominator
               /\ timeRange' = newTime
        /\ scheduleRender
        /\ cancelResult' = "none"
        /\ UNCHANGED <<priceConfig, width, height, panState, zoomBounds, downRange,
                       chartPc, pluginVars, runVars, storeVars, sourceVars, vpOp, frameVars,
                       crosshair, listenerVars, panCall, walk, scaled, wheelVars, pluginCall, replay, wiring, enableCrosshair, renderer>>

\* Chart.zoomOut(centerX)
ZoomOut ==
    \E centerX \in CenterArgs :
        /\ chartPc = "idle"
        /\ renderer
        /\ \E newTime \in {ProgramZoomedTime(Num(5, 6), centerX)} :
               /\ InBounds(newTime, priceConfig)
               /\ newTime.start.d <= MaxDenominator /\ newTime.end.d <= MaxDenominator
               /\ timeRange' = newTime
        /\ scheduleRender
        /\ cancelResult' = "none"
        /\ UNCHANGED <<priceConfig, width, height, panState, zoomBounds, downRange,
                       chartPc, pluginVars, runVars, storeVars, sourceVars, vpOp, frameVars,
                       crosshair, listenerVars, panCall, walk, scaled, wheelVars, pluginCall, replay, wiring, enableCrosshair, renderer>>

\* Chart.resetZoom() -> ZoomHandler.resetZoom: viewport.setTimeRange with the
\* data bounds of the ZoomHandler, unclamped, then onUpdate
ResetZoom ==
    /\ chartPc = "idle"
    /\ renderer
    /\ timeRange' = [start |-> zoomBounds.minTime, end |-> zoomBounds.maxTime]
    /\ scheduleRender
    /\ cancelResult' = "none"
    /\ UNCHANGED <<priceConfig, width, height, panState, zoomBounds, downRange,
                   chartPc, pluginVars, runVars, storeVars, sourceVars, vpOp, frameVars,
                   crosshair, listenerVars, panCall, walk, scaled, wheelVars, pluginCall, replay, wiring, enableCrosshair, renderer>>

\* the mouseleave listener the chart registers with the crosshair enabled:
\* crosshair.hide(), then scheduleRender
MouseLeave ==
    /\ chartPc = "idle"
    /\ renderer
    /\ enableCrosshair
    /\ crosshair' = [crosshair EXCEPT !.visible = FALSE]
    /\ scheduleRender
    /\ cancelResult' = "none"
    /\ UNCHANGED <<viewportVars, panState, zoomBounds, downRange, chartPc>>
    /\ UNCHANGED <<pluginVars, runVars, storeVars, sourceVars, vpOp, frameVars,
                   listenerVars, panCall, walk, scaled, wheelVars, pluginCall, replay, wiring, enableCrosshair, renderer>>

\* a series of n candles 100 ms apart, loaded by the constructor of CandleSeries
SeriesOfLength(n) ==
    /\ length = n
    /\ ts = [i \in 1..n |-> 100 * (i - 1)]
    /\ open = [i \in 1..n |-> 0] /\ high = [i \in 1..n |-> 100]
    /\ low = [i \in 1..n |-> 0] /\ close = [i \in 1..n |-> 100]
    /\ volume = NullArray
    /\ hasVolume = FALSE
    /\ last = Op("new", NoCandle, "set")
    /\ ListenersInit

\* the chart's zooms: by the wheel, zoomIn and zoomOut
ZoomNext == Wheel \/ ZoomIn \/ ZoomOut

\* no PanHandler method has been called directly
NoPanCall ==
    [name |-> "none", button |-> 0, altKey |-> FALSE, handled |-> FALSE, updated |-> FALSE]
PanCall(name, e, handled, updated) ==
    [name |-> name, button |-> e.button, altKey |-> e.altKey, handled |-> handled,
     updated |-> updated]

\* panHandler.onPointerDown(e), called on the handler itself
OnPointerDown ==
    \E e \in PointerEvents :
        /\ IF e.button # 0
           THEN UNCHANGED <<panState, downRange>>
           ELSE panState' = PointerDownState(e) /\ downRange' = RangeNow
        /\ panCall' = PanCall("onPointerDown", e, e.button = 0, FALSE)
        /\ cancelResult' = "none"
        /\ UNCHANGED <<viewportVars, zoomBounds, chartVars, storeVars, sourceVars, vpOp,
                       frameVars, crosshair, listenerVars, walk, scaled, wheelVars, pluginCall, replay, wiring, enableCrosshair, renderer>>

\* panHandler.onPointerMove(e)
OnPointerMove ==
    \E e \in PointerEvents :
        /\ IF ~isPanning
           THEN UNCHANGED <<timeRange, priceConfig, panState>>
           ELSE /\ \E newTime \in {PannedTime(MoveTimeDelta(e))},
                      newPrice \in {PannedPrice(MovePriceDelta(e))} :
                       /\ InBounds(newTime, newPrice)
                       /\ timeRange' = newTime
                       /\ priceConfig' = newPrice
                /\ panState' = [panState EXCEPT !.lastX = e.chartX, !.lastY = e.chartY]
        /\ panCall' = PanCall("onPointerMove", e, isPanning, isPanning)
        /\ cancelResult' = "none"
        /\ UNCHANGED <<width, height, zoomBounds, downRange, chartVars, storeVars, sourceVars,
                       vpOp, frameVars, crosshair, listenerVars, walk, scaled, wheelVars, pluginCall, replay, wiring, enableCrosshair, renderer>>

\* panHandler.onPointerUp(e)
OnPointerUp ==
    \E e \in PointerEvents :
        /\ panState' = IF isPanning THEN NullPan ELSE panState
        /\ panCall' = PanCall("onPointerUp", e, isPanning, FALSE)
        /\ cancelResult' = "none"
        /\ UNCHANGED <<viewportVars, zoomBounds, downRange, chartVars, storeVars, sourceVars,
                       vpOp, frameVars, crosshair, listenerVars, walk, scaled, wheelVars, pluginCall, replay, wiring, enableCrosshair, renderer>>

\* panHandler.onPointerCancel(e)
OnPointerCancel ==
    \E e \in PointerEvents :
        /\ IF ~isPanning
           THEN UNCHANGED <<timeRange, priceConfig, panState>> /\ cancelResult' = "none"
           ELSE /\ timeRange' = CancelledTime
                /\ priceConfig' = CancelledPrice
                /\ panState' = NullPan
                /\ cancelResult' =
                       IF timeRange # downRange.timeRange
                          /\ (priceConfig.min # downRange.min \/ priceConfig.max # downRange.max)
                       THEN "changed" ELSE "unchanged"
        /\ panCall' = PanCall("onPointerCancel", e, isPanning, isPanning)
        /\ UNCHANGED <<width, height, zoomBounds, downRange, chartVars, storeVars, sourceVars,
                       vpOp, frameVars, crosshair, listenerVars, walk, scaled, wheelVars, pluginCall, replay, wiring, enableCrosshair, renderer>>

PanHandlerNext == OnPointerDown \/ OnPointerMove \/ OnPointerUp \/ OnPointerCancel

\* canvas.width and canvas.height of the model's canvas: with the axes and the
\* padding of the layout taken off, the chart area is ChartArea
Canvas == [width |-> R(80), height |-> R(60)]

\* before its first frame the chart has no viewport, and its handlers hold the
\* tempViewport of setupInteraction; the ZoomHandler's maxTime is
\* Number.MAX_SAFE_INTEGER, above every time of the model
TempViewportInit ==
    /\ hasInitialViewport = FALSE
    /\ dataSourceSubscriptions = {}
    /\ timeRange = [start |-> R(0), end |-> R(1000)]
    /\ priceConfig = [min |-> R(0), max |-> R(100), paddingPx |-> R(0)]
    /\ width = Canvas.width
    /\ height = Canvas.height
    /\ zoomBounds = [minTime |-> R(0), maxTime |-> Infinity, avgCandleDuration |-> R(60000)]
    /\ panState = NullPan
    /\ downRange = RangeNow
    /\ cancelResult = "none"
    /\ vpOp = [name |-> "none", args |-> <<>>, seq |-> 0]
    /\ panCall = NoPanCall
    /\ walk = NewWalk
    /\ scaled = NoScaled
    /\ crosshair = NoCrosshair

\* the viewport the chart builds in its first frame from its one series, and
\* the handlers bound to it
ViewportInit ==
    \E data \in {DataTimeDomain} :
        /\ hasInitialViewport = TRUE
        /\ dataSourceSubscriptions = {}
        /\ timeRange = [start |-> data.min, end |-> data.max]
        /\ \E range \in {FramePriceRange} :
               priceConfig = [min |-> range.min, max |-> range.max, paddingPx |-> R(0)]
        /\ width = ChartArea.width
        /\ height = ChartArea.height
        /\ zoomBounds = [minTime |-> data.min, maxTime |-> data.max,
                         avgCandleDuration |-> FDiv(FSub(data.max, data.min), R(length))]
        /\ panState = NullPan
        /\ downRange = RangeNow
        /\ cancelResult = "none"
        /\ vpOp = [name |-> "none", args |-> <<>>, seq |-> 0]
        /\ panCall = NoPanCall
        /\ walk = NewWalk
        /\ scaled = NoScaled
        /\ crosshair = NoCrosshair

\* a series of ten candles, loaded by the constructor of CandleSeries
TenCandles ==
    /\ length = 10
    /\ ts = <<0, 100, 200, 300, 400, 500, 600, 700, 800, 1000>>
    /\ open = [i \in 1..10 |-> 0] /\ high = [i \in 1..10 |-> 100]
    /\ low = [i \in 1..10 |-> 0] /\ close = [i \in 1..10 |-> 100]
    /\ volume = NullArray
    /\ hasVolume = FALSE
    /\ last = Op("new", NoCandle, "set")
    /\ ListenersInit

PanNext ==
    \/ PointerDown \/ PointerMove \/ PointerUp \/ PointerCancel
    \/ Wheel \/ ScrollLeft \/ ScrollRight \/ ResetZoom \/ MouseLeave \/ RenderFrame

(***************************************************************************)
(* Direct calls of Viewport methods, on any viewport                       *)
(***************************************************************************)
\* the arguments <<factor, centerX>> of zoom
ZoomArgs == {<<f, x>> : f \in {R(2), Num(1, 2)}, x \in {R(0), R(1), R(4)}}
\* the arguments <<minTime, maxTime, minSpan, maxSpan>> of clampTimeRange
ClampArgs ==
    {<<a, b, c, d>> : a \in {R(0), R(500)}, b \in {R(500), R(1000)},
                      c \in {R(0), R(250), R(1000)}, d \in {R(250), R(1000), R(2000)}}

Zoom ==
    \E args \in ZoomArgs :
        /\ \E newTime \in {ZoomedTime(args[1], args[2])} :
               /\ InBounds(newTime, priceConfig)
               /\ newTime.start.d <= MaxDenominator /\ newTime.end.d <= MaxDenominator
               /\ timeRange' = newTime
        /\ vpOp.seq < MaxViewportCalls /\ ~isPanning
        /\ vpOp' = [name |-> "zoom", args |-> args, seq |-> vpOp.seq + 1]
        /\ UNCHANGED <<priceConfig, width, height, handlerVars, chartVars, storeVars, sourceVars, frameVars, crosshair, listenerVars, panCall, walk, scaled, wheelVars, pluginCall, replay, wiring, enableCrosshair, renderer>>

ClampTimeRange ==
    \E args \in ClampArgs :
        /\ \E newTime \in {ClampedTime(timeRange, args[1], args[2], args[3], args[4])} :
               /\ InBounds(newTime, priceConfig)
               /\ timeRange' = newTime
        /\ vpOp.seq < MaxViewportCalls /\ ~isPanning
        /\ vpOp' = [name |-> "clampTimeRange", args |-> args, seq |-> vpOp.seq + 1]
        /\ UNCHANGED <<priceConfig, width, height, handlerVars, chartVars, storeVars, sourceVars, frameVars, crosshair, listenerVars, panCall, walk, scaled, wheelVars, pluginCall, replay, wiring, enableCrosshair, renderer>>

\* a viewport constructed from any configuration, and a PanHandler on it
AnyViewport ==
    /\ timeRange \in {[start |-> R(a), end |-> R(b)] : a, b \in {0 - 1000, 0, 250, 500, 1000, 2000}}
    /\ FLe(timeRange.start, timeRange.end)
    /\ priceConfig = [min |-> R(0), max |-> R(100), paddingPx |-> R(0)]
    /\ width \in {R(0), R(4)}
    /\ height \in {R(0), R(4)}
    /\ zoomBounds = [minTime |-> R(0), maxTime |-> R(1000), avgCandleDuration |-> R(100)]
    /\ panState = NullPan
    /\ downRange = RangeNow
    /\ cancelResult = "none"
    /\ vpOp = [name |-> "none", args |-> <<>>, seq |-> 0]
    /\ panCall = NoPanCall
    /\ walk = NewWalk
    /\ scaled = NoScaled
    /\ hasInitialViewport = TRUE
    /\ dataSourceSubscriptions = {}
    /\ crosshair = NoCrosshair

(***************************************************************************)
(* Viewport: a value sent to pixels and back                               *)
(***************************************************************************)
\* the timestamps and the prices sent through the scale functions
ScaleInputs == (0 - 3)..MaxScaleInput

\* a viewport constructed from whole numbers: ranges that grow, that shrink
\* and that are empty, small and large pixel sizes, without padding, with
\* little padding and with a padding that leaves one pixel of height
ScaleViewport ==
    /\ timeRange \in {[start |-> R(a[1]), end |-> R(a[2])] :
                      a \in {<<0, 10>>, <<0 - 3, 7>>, <<10, 0>>, <<4, 4>>}}
    /\ width \in {R(3), R(800)}
    /\ \E range \in {<<0, 100>>, <<5, 0 - 5>>}, box \in {<<0, 600>>, <<1, 4>>, <<500, 1001>>} :
           /\ priceConfig = [min |-> R(range[1]), max |-> R(range[2]), paddingPx |-> R(box[1])]
           /\ height = R(box[2])
    /\ zoomBounds = [minTime |-> R(0), maxTime |-> R(1000), avgCandleDuration |-> R(100)]
    /\ panState = NullPan
    /\ downRange = RangeNow
    /\ cancelResult = "none"
    /\ vpOp = [name |-> "none", args |-> <<>>, seq |-> 0]
    /\ panCall = NoPanCall
    /\ walk = NewWalk
    /\ scaled = NoScaled
    /\ hasInitialViewport = TRUE
    /\ dataSourceSubscriptions = {}
    /\ crosshair = NoCrosshair

\* invX(xScale(t))
XRoundTrip ==
    \E t \in ScaleInputs : \E px \in {xScale(t)} :
        /\ scaled' = [fn |-> "xScale", arg |-> t, px |-> px, back |-> invX_Double(px),
                       divs |-> xScaleDivisors \cup invXDivisors]
        /\ UNCHANGED <<storeVars, chartVars, viewportVars, handlerVars, sourceVars, vpOp,
                       frameVars, crosshair, listenerVars, panCall, walk, wheelVars, pluginCall, replay, wiring, enableCrosshair, renderer>>

\* invY(yScale(p))
YRoundTrip ==
    \E p \in ScaleInputs : \E px \in {yScale(p)} :
        /\ scaled' = [fn |-> "yScale", arg |-> p, px |-> px, back |-> invY_Double(px),
                       divs |-> yScaleDivisors \cup invYDivisors]
        /\ UNCHANGED <<storeVars, chartVars, viewportVars, handlerVars, sourceVars, vpOp,
                       frameVars, crosshair, listenerVars, panCall, walk, wheelVars, pluginCall, replay, wiring, enableCrosshair, renderer>>

ScaleNext == XRoundTrip \/ YRoundTrip

(***************************************************************************)
(* Viewport: zooms in double precision                                     *)
(***************************************************************************)
\* the factors 2, 3 and 1/2; the pixels: inside a chart 4 wide and to its
\* right, and the left edge, the middle and the right edge of a wider one
ZoomFactors == {FromInt(2), FromInt(3), TimesPow2(FromInt(1), 0 - 1)}
ZoomPixels == IF width.n = 4 THEN {1, 3, 5} ELSE {0, width.n \div 2, width.n}

\* a viewport constructed with a whole-number time range of non-zero span,
\* 4 or 800 pixels wide
RoundingViewport ==
    /\ \E a \in {<<0, 10, 4>>, <<0 - 3, 7, 4>>, <<0, 1000, 4>>, <<0, 1000, 800>>} :
           /\ timeRange = [start |-> FromInt(a[1]), end |-> FromInt(a[2])]
           /\ width = R(a[3])
    /\ priceConfig = [min |-> R(0), max |-> R(100), paddingPx |-> R(0)]
    /\ height = R(4)
    /\ zoomBounds = [minTime |-> R(0), maxTime |-> R(1000), avgCandleDuration |-> R(100)]
    /\ panState = NullPan
    /\ downRange = RangeNow
    /\ cancelResult = "none"
    /\ vpOp = [name |-> "none", args |-> <<>>, seq |-> 0]
    /\ panCall = NoPanCall
    /\ walk = NewWalk
    /\ scaled = NoScaled
    /\ hasInitialViewport = TRUE
    /\ dataSourceSubscriptions = {}
    /\ crosshair = NoCrosshair

\* viewport.zoom(factor, centerX); vpOp keeps the range the call found
ZoomRounded ==
    \E factor \in ZoomFactors, centerX \in ZoomPixels :
        /\ vpOp.seq < MaxZooms
        /\ timeRange' = ZoomedTime_Double(timeRange, factor, centerX)
        /\ vpOp' = [name |-> "zoom", args |-> <<factor, centerX>>, seq |-> vpOp.seq + 1,
                    before |-> timeRange]
        /\ UNCHANGED <<priceConfig, width, height, handlerVars, chartVars, storeVars, sourceVars, frameVars, crosshair, listenerVars, panCall, walk, scaled, wheelVars, pluginCall, replay, wiring, enableCrosshair, renderer>>

RoundingNext == ZoomRounded

(***************************************************************************)
(* Viewport: the four functions on viewports without a time span, without  *)
(* a price span, without width or without available height                 *)
(***************************************************************************)
\* a viewport constructed from whole numbers in which any of the four sizes
\* can be zero
FallbackViewport ==
    /\ timeRange \in {[start |-> R(a[1]), end |-> R(a[2])] :
                      a \in {<<4, 4>>, <<0 - 3, 0 - 3>>, <<0, 10>>}}
    /\ width \in {R(0), R(3)}
    /\ \E range \in {<<5, 5>>, <<0, 100>>},
          box \in {<<0, 0>>, <<2, 4>>, <<0, 600>>} :
           /\ priceConfig = [min |-> R(range[1]), max |-> R(range[2]), paddingPx |-> R(box[1])]
           /\ height = R(box[2])
    /\ zoomBounds = [minTime |-> R(0), maxTime |-> R(1000), avgCandleDuration |-> R(100)]
    /\ panState = NullPan
    /\ downRange = RangeNow
    /\ cancelResult = "none"
    /\ vpOp = [name |-> "none", args |-> <<>>, seq |-> 0]
    /\ panCall = NoPanCall
    /\ walk = NewWalk
    /\ scaled = NoScaled
    /\ hasInitialViewport = TRUE
    /\ dataSourceSubscriptions = {}
    /\ crosshair = NoCrosshair

\* xScale(t): px is the result
XScale ==
    \E t \in ScaleInputs :
        /\ scaled' = [fn |-> "xScale", arg |-> t, px |-> xScale(t), back |-> Zero,
                       divs |-> xScaleDivisors]
        /\ UNCHANGED <<storeVars, chartVars, viewportVars, handlerVars, sourceVars, vpOp,
                       frameVars, crosshair, listenerVars, panCall, walk, wheelVars, pluginCall, replay, wiring, enableCrosshair, renderer>>

\* yScale(p): px is the result
YScale ==
    \E p \in ScaleInputs :
        /\ scaled' = [fn |-> "yScale", arg |-> p, px |-> yScale(p), back |-> Zero,
                       divs |-> yScaleDivisors]
        /\ UNCHANGED <<storeVars, chartVars, viewportVars, handlerVars, sourceVars, vpOp,
                       frameVars, crosshair, listenerVars, panCall, walk, wheelVars, pluginCall, replay, wiring, enableCrosshair, renderer>>

\* invX(px): back is the result
InvX ==
    \E x \in ScaleInputs :
        /\ scaled' = [fn |-> "invX", arg |-> x, px |-> FromInt(x),
                       back |-> invX_Double(FromInt(x)), divs |-> invXDivisors]
        /\ UNCHANGED <<storeVars, chartVars, viewportVars, handlerVars, sourceVars, vpOp,
                       frameVars, crosshair, listenerVars, panCall, walk, wheelVars, pluginCall, replay, wiring, enableCrosshair, renderer>>

\* invY(px): back is the result
InvY ==
    \E y \in ScaleInputs :
        /\ scaled' = [fn |-> "invY", arg |-> y, px |-> FromInt(y),
                       back |-> invY_Double(FromInt(y)), divs |-> invYDivisors]
        /\ UNCHANGED <<storeVars, chartVars, viewportVars, handlerVars, sourceVars, vpOp,
                       frameVars, crosshair, listenerVars, panCall, walk, wheelVars, pluginCall, replay, wiring, enableCrosshair, renderer>>

FallbackNext == XScale \/ YScale \/ InvX \/ InvY

\* a drag over a chart area without width or without height
DegenerateDrag ==
    /\ vpOp.seq = 0
    /\ width = R(0) \/ height = R(0)
    /\ PointerDown \/ PointerMove

ViewportNext == Zoom \/ ClampTimeRange \/ DegenerateDrag

(***************************************************************************)
(* The chart between frames: its series changes, a data source is          *)
(* connected, the viewport is reset.  The chart's listener on the series   *)
(* (addSeries) requests a frame at every change of the series.             *)
(***************************************************************************)
\* the candles a connected source emits, and the data an application loads
FrameCandles == {MkCandle(t, 1, Undefined) : t \in {1000, 2000}}
FrameData == {<<>>, <<MkCandle(1000, 1, Undefined)>>,
              <<MkCandle(0, 1, Undefined), MkCandle(2000, 1, Undefined)>>}

\* n calls of scheduleRender in a row (n >= 1)
scheduleRenderTimes(n) ==
    IF renderScheduled
    THEN /\ requests' = Min(requests + n, MaxRequests)
         /\ UNCHANGED <<renderScheduled, rafQueue>>
    ELSE /\ renderScheduled' = TRUE
         /\ rafQueue' = rafQueue + 1
         /\ requests' = Min(n, MaxRequests)

ConnectDataSource ==
    /\ chartPc = "idle"
    /\ dataSourceSubscriptions' = {"series"}
    /\ UNCHANGED <<hasInitialViewport, storeVars, chartVars, viewportVars, handlerVars,
                   sourceVars, vpOp, crosshair, listenerVars, panCall, walk, scaled, wheelVars, pluginCall, replay, wiring, enableCrosshair, renderer>>

DisconnectDataSource ==
    /\ chartPc = "idle"
    /\ dataSourceSubscriptions # {}
    /\ dataSourceSubscriptions' = {}
    /\ UNCHANGED <<hasInitialViewport, storeVars, chartVars, viewportVars, handlerVars,
                   sourceVars, vpOp, crosshair, listenerVars, panCall, walk, scaled, wheelVars, pluginCall, replay, wiring, enableCrosshair, renderer>>

\* the callback of connectDataSource: series.updateOrAppend(candle), whose
\* change listener requests a frame unless the row is rejected, then
\* scheduleRender
SourceCandle ==
    \E candle \in FrameCandles :
        /\ chartPc = "idle"
        /\ dataSourceSubscriptions # {}
        /\ UpdateOrAppendBranch(candle) = "append" => length < MaxLen
        /\ updateOrAppend(candle)
        /\ last' = Op("updateOrAppend", candle, UpdateOrAppendBranch(candle))
        /\ scheduleRenderTimes(IF UpdateOrAppendBranch(candle) = "reject" THEN 1 ELSE 2)
        /\ UNCHANGED <<pluginVars, chartPc, runVars, viewportVars, handlerVars, sourceVars,
                       vpOp, frameVars, crosshair, listenerVars, panCall, walk, scaled, wheelVars, pluginCall, replay, wiring, enableCrosshair, renderer>>

\* series.setData(candles) by the application
SeriesSetData ==
    \E candles \in FrameData :
        /\ chartPc = "idle"
        /\ setData(candles)
        /\ last' = Op("setData", NoCandle, "set")
        /\ scheduleRender
        /\ UNCHANGED <<pluginVars, chartPc, runVars, viewportVars, handlerVars, sourceVars,
                       vpOp, frameVars, crosshair, listenerVars, panCall, walk, scaled, wheelVars, pluginCall, replay, wiring, enableCrosshair, renderer>>

\* Chart.resetViewport: the chart has no viewport until the next frame
ResetViewport ==
    /\ chartPc = "idle"
    /\ hasInitialViewport' = FALSE
    /\ scheduleRender
    /\ UNCHANGED <<pluginVars, chartPc, runVars, viewportVars, handlerVars, storeVars,
                   sourceVars, vpOp, dataSourceSubscriptions,
                   crosshair, listenerVars, panCall, walk, scaled, wheelVars, pluginCall, replay, wiring, enableCrosshair, renderer>>

\* chart.getViewport().zoom(factor, centerX) by the application
ViewportZoom == hasInitialViewport /\ renderer /\ Zoom

FramesNext ==
    \/ ConnectDataSource \/ DisconnectDataSource \/ SourceCandle \/ SeriesSetData
    \/ ResetViewport \/ ViewportZoom \/ RenderFrame \/ Destroy

(***************************************************************************)
(* A Crosshair over a viewport and a series, driven by pointer events.     *)
(* chartX is relative to the canvas, which is wider than the chart area.   *)
(***************************************************************************)
CrosshairEvents == {[chartX |-> x, chartY |-> 1] : x \in {0, 2, 4, 12}}

\* the data of the series: candles at distinct timestamps, in order
CrosshairData ==
    {[i \in 1..Len(t) |-> MkCandle(t[i], 1, Undefined)] :
        t \in {u \in UNION {[1..n -> 0..MaxTs] : n \in 0..(MaxLen + 1)} :
                  \A i, j \in 1..Len(u) : i < j => u[i] < u[j]}}

\* series.setData(candles)
CrosshairSetData ==
    \E candles \in CrosshairData :
        /\ setData(candles)
        /\ last' = Op("setData", NoCandle, "set")
        /\ UNCHANGED otherThanStore

CrosshairMove ==
    \E e \in CrosshairEvents :
        /\ crosshair' = CrosshairAfterMove(e)
        /\ UNCHANGED <<storeVars, chartVars, viewportVars, handlerVars, sourceVars, vpOp,
                       frameVars, listenerVars, panCall, walk, scaled, wheelVars, pluginCall, replay, wiring, enableCrosshair, renderer>>

\* Crosshair.hide
CrosshairHide ==
    /\ crosshair.visible
    /\ crosshair' = [crosshair EXCEPT !.visible = FALSE]
    /\ UNCHANGED <<storeVars, chartVars, viewportVars, handlerVars, sourceVars, vpOp,
                   frameVars, listenerVars, panCall, walk, scaled, wheelVars, pluginCall, replay, wiring, enableCrosshair, renderer>>

\* a chart area 4 by 4 over any time range between the timestamps of the model
CrosshairViewport ==
    /\ timeRange \in {[start |-> R(a), end |-> R(b)] : a, b \in 0..MaxTs}
    /\ FLe(timeRange.start, timeRange.end)
    /\ priceConfig = [min |-> R(0), max |-> R(100), paddingPx |-> R(0)]
    /\ width = R(4)
    /\ height = R(4)
    /\ zoomBounds = [minTime |-> R(0), maxTime |-> R(1000), avgCandleDuration |-> R(100)]
    /\ panState = NullPan
    /\ downRange = RangeNow
    /\ cancelResult = "none"
    /\ vpOp = [name |-> "none", args |-> <<>>, seq |-> 0]
    /\ panCall = NoPanCall
    /\ walk = NewWalk
    /\ scaled = NoScaled
    /\ hasInitialViewport = TRUE
    /\ dataSourceSubscriptions = {}
    /\ crosshair = NoCrosshair

CrosshairNext == CrosshairSetData \/ CrosshairMove \/ CrosshairHide

(***************************************************************************)
(* CandleSeries with change listeners.  notifyListeners is               *)
(* listeners.forEach(listener => listener()): a live iteration over the    *)
(* Set, which skips an entry deleted before its turn and reaches an entry  *)
(* added during the loop; an error raised by a listener leaves the loop    *)
(* and the call that notified.  A listener may call onChange or an         *)
(* unsubscribe function of its series.                                     *)
(***************************************************************************)
ChangeListeners == {"f", "g"}
\* the rows and data passed to the series
ListenerCandles == {MkCandle(t, 1, Undefined) : t \in {0, 1}}
ListenerData == {<<>>, <<MkCandle(1, 1, Undefined)>>}

otherThanSeries == <<chartVars, viewportVars, handlerVars, sourceVars, vpOp, frameVars, crosshair, panCall, walk, scaled, wheelVars, pluginCall, replay, wiring, enableCrosshair, renderer>>

\* the caller of a series method: the application, or the running listener
SeriesCalled ==
    \/ storePc = "idle" /\ UNCHANGED <<storePc, listenerCalls>>
    \/ /\ storePc = "listener" /\ listenerCalls < MaxListenerCalls
       /\ listenerCalls' = listenerCalls + 1 /\ UNCHANGED storePc

\* onChange(listener); the unsubscribe function it returns is Unsubscribed
OnChange ==
    \E listener \in ChangeListeners :
        /\ SeriesCalled
        /\ listeners' = PluginsAfterInstall(listeners, listener)
        /\ notifyAdded' = IF storePc # "idle" /\ ~MapHas(listeners, listener)
                          THEN notifyAdded \cup {listener} ELSE notifyAdded
        /\ UNCHANGED <<notifyCursor, notifyLog, notifyStart, notifyRemoved, notifyStatus>>
        /\ UNCHANGED <<storeVars, otherThanSeries>>

\* a call of an unsubscribe function: listeners.delete(listener)
Unsubscribed ==
    \E listener \in ChangeListeners :
        /\ SeriesCalled
        /\ listeners' = MapDelete(listeners, listener)
        /\ notifyCursor' = IF storePc = "idle" THEN notifyCursor
                           ELSE CursorAfterDelete(listeners, notifyCursor, listener)
        /\ notifyRemoved' = IF storePc # "idle" /\ MapHas(listeners, listener)
                            THEN notifyRemoved \cup {listener} ELSE notifyRemoved
        /\ UNCHANGED <<notifyLog, notifyStart, notifyAdded, notifyStatus>>
        /\ UNCHANGED <<storeVars, otherThanSeries>>

\* notifyListeners is entered
notifyListeners ==
    /\ storePc' = "notify"
    /\ notifyCursor' = 0
    /\ listenerCalls' = 0
    /\ notifyLog' = <<>>
    /\ notifyStart' = listeners
    /\ notifyRemoved' = {}
    /\ notifyAdded' = {}
    /\ notifyStatus' = "running"
    /\ UNCHANGED listeners

SetDataCall ==
    \E candles \in ListenerData :
        /\ storePc = "idle"
        /\ setData(candles)
        /\ last' = Op("setData", NoCandle, "set")
        /\ notifyListeners
        /\ UNCHANGED otherThanSeries

ClearCall ==
    /\ storePc = "idle"
    /\ ResetStore
    /\ last' = Op("clear", NoCandle, "set")
    /\ notifyListeners
    /\ UNCHANGED otherThanSeries

AppendCandleCall ==
    \E candle \in ListenerCandles :
        /\ storePc = "idle"
        /\ length < MaxLen
        /\ appendCandle(candle)
        /\ last' = Op("appendCandle", candle, "append")
        /\ notifyListeners
        /\ UNCHANGED otherThanSeries

UpdateLastCandleCall ==
    \E candle \in ListenerCandles :
        /\ storePc = "idle"
        /\ updateLastCandle(candle)
        /\ last' = Op("updateLastCandle", candle, IF length = 0 THEN "reject" ELSE "update")
        /\ IF length = 0 THEN UNCHANGED listenerVars ELSE notifyListeners
        /\ UNCHANGED otherThanSeries

UpdateOrAppendCall ==
    \E candle \in ListenerCandles :
        /\ storePc = "idle"
        /\ UpdateOrAppendBranch(candle) = "append" => length < MaxLen
        /\ updateOrAppend(candle)
        /\ last' = Op("updateOrAppend", candle, UpdateOrAppendBranch(candle))
        /\ IF UpdateOrAppendBranch(candle) = "reject"
           THEN UNCHANGED listenerVars ELSE notifyListeners
        /\ UNCHANGED otherThanSeries

\* getLength, getCandle, toArray, domainX, ...: the reads
ReadCall ==
    /\ storePc = "idle"
    /\ last' = Op("read", NoCandle, "read")
    /\ UNCHANGED <<ts, open, high, low, close, volume, hasVolume, length>>
    /\ UNCHANGED <<listenerVars, otherThanSeries>>

\* forEach calls the next entry of the set
NextListener ==
    /\ storePc = "notify"
    /\ notifyCursor < Len(listeners)
    /\ Len(notifyLog) < MaxInvocations
    /\ notifyLog' = Append(notifyLog, listeners[notifyCursor + 1])
    /\ notifyCursor' = notifyCursor + 1
    /\ storePc' = "listener"
    /\ listenerCalls' = 0
    /\ UNCHANGED <<listeners, notifyStart, notifyRemoved, notifyAdded, notifyStatus>>
    /\ UNCHANGED <<storeVars, otherThanSeries>>

ListenerReturn ==
    /\ storePc = "listener"
    /\ storePc' = "notify"
    /\ UNCHANGED <<listeners, notifyCursor, listenerCalls, notifyLog, notifyStart,
                   notifyRemoved, notifyAdded, notifyStatus>>
    /\ UNCHANGED <<storeVars, otherThanSeries>>

\* the listener raises an error: forEach, notifyListeners and the call of
\* the series that notified are left
ListenerThrow ==
    /\ storePc = "listener"
    /\ storePc' = "idle"
    /\ notifyStatus' = "threw"
    /\ UNCHANGED <<listeners, notifyCursor, listenerCalls, notifyLog, notifyStart,
                   notifyRemoved, notifyAdded>>
    /\ UNCHANGED <<storeVars, otherThanSeries>>

\* forEach has no entry left: the call of the series returns
NotifyEnd ==
    /\ storePc = "notify"
    /\ notifyCursor >= Len(listeners)
    /\ storePc' = "idle"
    /\ notifyStatus' = "completed"
    /\ UNCHANGED <<listeners, notifyCursor, listenerCalls, notifyLog, notifyStart,
                   notifyRemoved, notifyAdded>>
    /\ UNCHANGED <<storeVars, otherThanSeries>>

ListenersNext ==
    \/ OnChange \/ Unsubscribed
    \/ SetDataCall \/ ClearCall \/ AppendCandleCall \/ UpdateLastCandleCall
    \/ UpdateOrAppendCall \/ ReadCall
    \/ NextListener \/ ListenerReturn \/ ListenerThrow \/ NotifyEnd

(***************************************************************************)
(* Data sources: RandomWalkSource (setInterval) and ArrayPlaybackSource    *)
(* (a chain of setTimeout).  The timers of one source all run the same     *)
(* closure, so they are told apart only by whether the source still holds  *)
(* their handle.                                                           *)
(***************************************************************************)
Callbacks == {"A", "B"}
\* the speeds passed to the constructor of ArrayPlaybackSource and to setSpeed
SpeedArgs == {0 - 1, 0, 1, 2}
\* setSpeed has not been called
NoSpeedCall == [arg |-> 1, threw |-> FALSE, flip |-> FALSE]

PendingTimers == orphans + (IF timerId = "pending" THEN 1 ELSE 0)

\* this.timeoutId = window.setTimeout(...): a pending timer whose handle is
\* overwritten stays pending
Arm ==
    /\ timerId' = "pending"
    /\ orphans' = IF timerId = "pending" THEN orphans + 1 ELSE orphans
    /\ orphans' <= MaxOrphans

\* ArrayPlaybackSource.scheduleNext, entered with the given isRunning and
\* currentIndex at the given depth of its own recursion: the fields it leaves,
\* whether it arms a timer, and whether the recursion ran out of stack
RECURSIVE scheduleNext(_, _, _)
scheduleNext(running, index, depth) ==
    IF ~running \/ index >= DataLength
    THEN IF loop
         THEN IF depth >= MaxStack
              THEN [isRunning |-> running, currentIndex |-> 0, armed |-> FALSE, overflow |-> TRUE]
              ELSE scheduleNext(running, 0, depth + 1)
         ELSE [isRunning |-> FALSE, currentIndex |-> index, armed |-> FALSE, overflow |-> FALSE]
    ELSE [isRunning |-> running, currentIndex |-> index, armed |-> TRUE, overflow |-> FALSE]

\* the body of a source method that goes on to scheduleNext
ThenScheduleNext(running, index) ==
    \E r \in {scheduleNext(running, index, 0)} :
        /\ isRunning' = r.isRunning
        /\ currentIndex' = r.currentIndex
        /\ IF r.armed THEN Arm ELSE UNCHANGED <<timerId, orphans>>
        /\ lastError' = IF r.overflow THEN "RangeError" ELSE "none"

start ==
    IF isRunning THEN UNCHANGED <<isRunning, timerId, orphans, currentIndex, currentCandle, lastError>>
    ELSE IF srcKind = "randomWalk"
    THEN /\ isRunning' = TRUE
         /\ currentCandle' = "null"
         /\ Arm
         /\ UNCHANGED <<currentIndex, lastError>>
    ELSE /\ ThenScheduleNext(TRUE, currentIndex)
         /\ UNCHANGED currentCandle

stop ==
    IF ~isRunning THEN UNCHANGED <<isRunning, timerId, orphans, currentIndex, currentCandle, lastError>>
    ELSE /\ isRunning' = FALSE
         /\ timerId' = "null"
         /\ currentCandle' = "null"
         /\ UNCHANGED <<orphans, currentIndex, lastError>>

\* a source method is called by the application, or by the running callback
Called ==
    /\ srcPc = "idle" \/ (srcPc = "callback" /\ apiCalls < MaxApiCalls)
    /\ apiCalls' = IF srcPc = "callback" THEN apiCalls + 1 ELSE apiCalls
    /\ UNCHANGED <<srcKind, loop, srcPc, emitRunning, storeVars, chartVars, viewportVars, handlerVars, vpOp, frameVars, crosshair, listenerVars, panCall, walk, scaled, wheelVars, pluginCall, replay, wiring, enableCrosshair, renderer>>

Subscribe ==
    \E callback \in Callbacks :
        /\ Called
        /\ subscribers' = IF MapHas(subscribers, callback) THEN subscribers
                          ELSE Append(subscribers, callback)
        /\ unsubscribers' = unsubscribers \cup {callback}
        /\ IF Len(subscribers') = 1 /\ ~isRunning
           THEN start
           ELSE UNCHANGED <<isRunning, timerId, orphans, currentIndex, currentCandle, lastError>>
        /\ UNCHANGED <<emitCursor, control, speed, speedCall>>

\* a returned unsubscribe function is called, for the first time or again
Unsubscribe ==
    \E callback \in unsubscribers :
        /\ Called
        /\ subscribers' = MapDelete(subscribers, callback)
        /\ emitCursor' = IF srcPc = "idle" THEN emitCursor
                         ELSE CursorAfterDelete(subscribers, emitCursor, callback)
        /\ IF Len(subscribers') = 0
           THEN stop
           ELSE UNCHANGED <<isRunning, timerId, orphans, currentIndex, currentCandle, lastError>>
        /\ UNCHANGED <<unsubscribers, control, speed, speedCall>>

Start ==
    /\ Called
    /\ start
    /\ control' = TRUE
    /\ UNCHANGED <<subscribers, unsubscribers, emitCursor, speed, speedCall>>

Stop ==
    /\ Called
    /\ stop
    /\ control' = TRUE
    /\ UNCHANGED <<subscribers, unsubscribers, emitCursor, speed, speedCall>>

\* ArrayPlaybackSource.setSpeed(speed)
SetSpeed ==
    \E newSpeed \in SpeedArgs :
        /\ srcKind = "playback"
        /\ Called
        /\ IF newSpeed <= 0
           THEN UNCHANGED <<speed, isRunning, timerId, orphans, currentIndex, currentCandle,
                            lastError>>
           ELSE /\ speed' = newSpeed
                /\ IF ~isRunning
                   THEN UNCHANGED <<isRunning, timerId, orphans, currentIndex, lastError>>
                   ELSE IF Len(subscribers) = 0
                   THEN /\ isRunning' = FALSE /\ timerId' = "null"
                        /\ UNCHANGED <<orphans, currentIndex, lastError>>
                   ELSE \E r \in {scheduleNext(TRUE, currentIndex, 0)} :
                            /\ isRunning' = r.isRunning
                            /\ currentIndex' = r.currentIndex
                            /\ timerId' = IF r.armed THEN "pending" ELSE "null"
                            /\ lastError' = IF r.overflow THEN "RangeError" ELSE "none"
                            /\ UNCHANGED orphans
                /\ UNCHANGED currentCandle
        /\ speedCall' = [arg |-> newSpeed, threw |-> newSpeed <= 0, flip |-> ~speedCall.flip]
        /\ control' = TRUE
        /\ UNCHANGED <<subscribers, unsubscribers, emitCursor>>

\* a pending timer of the source fires: generateUpdate / emitCandle up to the
\* call of notifySubscribers.  An interval stays pending, a timeout does not.
FireTimer ==
    \E held \in BOOLEAN :
        /\ srcPc = "idle"
        /\ IF held THEN timerId = "pending" ELSE orphans > 0
        /\ timerId' = IF held /\ srcKind = "playback" THEN "fired" ELSE timerId
        /\ orphans' = IF held THEN orphans ELSE orphans - 1
        /\ IF srcKind = "playback" /\ currentIndex >= DataLength
           THEN UNCHANGED <<srcPc, emitCursor, emitRunning, currentCandle>>
           ELSE /\ srcPc' = "notify"
                /\ emitCursor' = 0
                /\ emitRunning' = isRunning
                /\ currentCandle' = IF srcKind = "randomWalk" THEN "some" ELSE currentCandle
        /\ lastError' = "none"
        /\ UNCHANGED <<srcKind, loop, speed, speedCall, subscribers, unsubscribers, isRunning, currentIndex,
                       apiCalls, control, storeVars, chartVars, viewportVars, handlerVars, vpOp, frameVars, crosshair, listenerVars, panCall, walk, scaled, wheelVars, pluginCall, replay, wiring, enableCrosshair, renderer>>

\* notifySubscribers: the loop moves to the next entry of the set and calls it
Deliver ==
    /\ srcPc = "notify"
    /\ emitCursor < Len(subscribers)
    /\ emitCursor' = emitCursor + 1
    /\ srcPc' = "callback"
    /\ apiCalls' = 0
    /\ UNCHANGED <<srcKind, loop, speed, speedCall, subscribers, unsubscribers, isRunning, timerId, orphans,
                   currentIndex, currentCandle, emitRunning, control, lastError,
                   storeVars, chartVars, viewportVars, handlerVars, vpOp, frameVars, crosshair, listenerVars, panCall, walk, scaled, wheelVars, pluginCall, replay, wiring, enableCrosshair, renderer>>

\* the callback returns, or throws and notifySubscribers catches the error
CallbackReturn ==
    /\ srcPc = "callback"
    /\ srcPc' = "notify"
    /\ UNCHANGED <<srcKind, loop, speed, speedCall, subscribers, unsubscribers, isRunning, timerId, orphans,
                   currentIndex, currentCandle, emitCursor, apiCalls, emitRunning, control,
                   lastError, storeVars, chartVars, viewportVars, handlerVars, vpOp, frameVars, crosshair, listenerVars, panCall, walk, scaled, wheelVars, pluginCall, replay, wiring, enableCrosshair, renderer>>

\* notifySubscribers returned: emitCandle moves on and calls scheduleNext,
\* generateUpdate returns
EmissionEnd ==
    /\ srcPc = "notify"
    /\ emitCursor >= Len(subscribers)
    /\ srcPc' = "idle"
    /\ IF srcKind = "playback"
       THEN ThenScheduleNext(isRunning, currentIndex + 1)
       ELSE UNCHANGED <<isRunning, currentIndex, timerId, orphans, lastError>>
    /\ emitCursor' = 0
    /\ UNCHANGED <<srcKind, loop, speed, speedCall, subscribers, unsubscribers, currentCandle,
                   apiCalls, emitRunning, control, storeVars, chartVars, viewportVars, handlerVars, vpOp, frameVars, crosshair, listenerVars, panCall, walk, scaled, wheelVars, pluginCall, replay, wiring, enableCrosshair, renderer>>

(***************************************************************************)
(* ArrayPlaybackSource: the candles it emits and their timestamps.  The    *)
(* subscriber is the callback of Chart.connectDataSource, which calls no   *)
(* method of the source.                                                   *)
(***************************************************************************)
\* config.data, sorted by the constructor: candles four milliseconds apart
ReplayData == [i \in 1..DataLength |-> 4 * (i - 1)]
\* config.speed and config.fixedInterval (left out, or one millisecond)
ReplaySpeeds == {1, 2}
FixedIntervals == {Undefined, 1}

\* new ArrayPlaybackSource({data, loop, speed, fixedInterval})
NewReplay(looping, factor, interval) ==
    [loop |-> looping, speed |-> factor, fixedInterval |-> interval, subscribers |-> 0,
     running |-> FALSE, index |-> 0, startTime |-> 0, due |-> Undefined, now |-> 0,
     lastTs |-> Undefined, emitted |-> FALSE, error |-> "none"]

\* the delay scheduleNext passes to setTimeout
ReplayDelay(r) ==
    IF r.fixedInterval # Undefined THEN r.fixedInterval
    ELSE IF r.index = 0 THEN 0
    ELSE (ReplayData[r.index + 1] - ReplayData[r.index]) \div r.speed

\* scheduleNext, at the given depth of its own recursion
RECURSIVE scheduleNextTimed(_, _)
scheduleNextTimed(r, depth) ==
    IF ~r.running \/ r.index >= DataLength
    THEN IF r.loop
         THEN IF depth >= MaxStack
              THEN [r EXCEPT !.index = 0, !.startTime = r.now, !.error = "RangeError"]
              ELSE scheduleNextTimed([r EXCEPT !.index = 0, !.startTime = r.now], depth + 1)
         ELSE [r EXCEPT !.running = FALSE]
    ELSE [r EXCEPT !.due = r.now + ReplayDelay(r)]

startReplay(r) ==
    IF r.running THEN r
    ELSE scheduleNextTimed([r EXCEPT !.running = TRUE, !.startTime = r.now], 0)

stopReplay(r) ==
    IF ~r.running THEN r ELSE [r EXCEPT !.running = FALSE, !.due = Undefined]

reset(r) ==
    IF r.running /\ r.subscribers > 0
    THEN startReplay([stopReplay(r) EXCEPT !.index = 0, !.startTime = r.now])
    ELSE [stopReplay(r) EXCEPT !.index = 0, !.startTime = r.now]

setSpeed(r, newSpeed) ==
    IF newSpeed <= 0 THEN r
    ELSE IF r.running /\ r.subscribers > 0
    THEN startReplay([stopReplay(r) EXCEPT !.speed = newSpeed])
    ELSE [stopReplay(r) EXCEPT !.speed = newSpeed]

\* emitCandle: the candle delivered has ts = startTime + (candle.ts -
\* firstCandle.ts) * (1 / speed)
emitCandle(r) ==
    IF r.index >= DataLength THEN r
    ELSE scheduleNextTimed(
             [r EXCEPT !.lastTs = r.startTime
                                     + (ReplayData[r.index + 1] - ReplayData[1]) \div r.speed,
                       !.emitted = ~r.emitted,
                       !.index = r.index + 1], 0)

\* source.subscribe(callback) by Chart.connectDataSource, and the unsubscribe
\* function it returned
ReplaySubscribe ==
    /\ replay.subscribers = 0
    /\ replay' = IF ~replay.running
                 THEN startReplay([replay EXCEPT !.subscribers = 1])
                 ELSE [replay EXCEPT !.subscribers = 1]
    /\ UNCHANGED <<storeVars, chartVars, viewportVars, handlerVars, sourceVars, vpOp, frameVars,
                   crosshair, listenerVars, panCall, walk, scaled, wheelVars, pluginCall, wiring, enableCrosshair, renderer>>

ReplayUnsubscribe ==
    /\ replay.subscribers = 1
    /\ replay' = stopReplay([replay EXCEPT !.subscribers = 0])
    /\ UNCHANGED <<storeVars, chartVars, viewportVars, handlerVars, sourceVars, vpOp, frameVars,
                   crosshair, listenerVars, panCall, walk, scaled, wheelVars, pluginCall, wiring, enableCrosshair, renderer>>

ReplayStart ==
    /\ replay' = startReplay(replay)
    /\ UNCHANGED <<storeVars, chartVars, viewportVars, handlerVars, sourceVars, vpOp, frameVars,
                   crosshair, listenerVars, panCall, walk, scaled, wheelVars, pluginCall, wiring, enableCrosshair, renderer>>

ReplayStop ==
    /\ replay' = stopReplay(replay)
    /\ UNCHANGED <<storeVars, chartVars, viewportVars, handlerVars, sourceVars, vpOp, frameVars,
                   crosshair, listenerVars, panCall, walk, scaled, wheelVars, pluginCall, wiring, enableCrosshair, renderer>>

ReplayReset ==
    /\ replay' = reset(replay)
    /\ UNCHANGED <<storeVars, chartVars, viewportVars, handlerVars, sourceVars, vpOp, frameVars,
                   crosshair, listenerVars, panCall, walk, scaled, wheelVars, pluginCall, wiring, enableCrosshair, renderer>>

ReplaySetSpeed ==
    \E newSpeed \in SpeedArgs :
        /\ replay' = setSpeed(replay, newSpeed)
        /\ UNCHANGED <<storeVars, chartVars, viewportVars, handlerVars, sourceVars, vpOp, frameVars,
                       crosshair, listenerVars, panCall, walk, scaled, wheelVars, pluginCall, wiring, enableCrosshair, renderer>>

\* the pending timeout fires, at the time it is due or later
ReplayFire ==
    /\ replay.due # Undefined
    /\ replay.now >= replay.due
    /\ replay' = emitCandle([replay EXCEPT !.due = Undefined])
    /\ UNCHANGED <<storeVars, chartVars, viewportVars, handlerVars, sourceVars, vpOp, frameVars,
                   crosshair, listenerVars, panCall, walk, scaled, wheelVars, pluginCall, wiring, enableCrosshair, renderer>>

\* a millisecond passes
ReplayTick ==
    /\ replay.now < MaxNow
    /\ replay' = [replay EXCEPT !.now = replay.now + 1]
    /\ UNCHANGED <<storeVars, chartVars, viewportVars, handlerVars, sourceVars, vpOp, frameVars,
                   crosshair, listenerVars, panCall, walk, scaled, wheelVars, pluginCall, wiring, enableCrosshair, renderer>>

ReplayNext ==
    \/ ReplaySubscribe \/ ReplayUnsubscribe \/ ReplayStart \/ ReplayStop
    \/ ReplayReset \/ ReplaySetSpeed \/ ReplayFire \/ ReplayTick

\* a source after its constructor
NewSource ==
    /\ srcKind \in {"randomWalk", "playback"}
    /\ loop \in (IF srcKind = "playback" THEN BOOLEAN ELSE {FALSE})
    /\ speed = 1
    /\ speedCall = NoSpeedCall
    /\ subscribers = <<>>
    /\ unsubscribers = {}
    /\ isRunning = FALSE
    /\ timerId = "null"
    /\ orphans = 0
    /\ currentIndex = 0
    /\ currentCandle = "null"
    /\ srcPc = "idle"
    /\ emitCursor = 0
    /\ apiCalls = 0
    /\ emitRunning = FALSE
    /\ control = FALSE
    /\ lastError = "none"

SourceInit == NewSource /\ replay = NewReplay(FALSE, 1, Undefined)

SourceNext ==
    \/ Subscribe \/ Unsubscribe \/ Start \/ Stop
    \/ FireTimer \/ Deliver \/ CallbackReturn \/ EmissionEnd

\* new ArrayPlaybackSource({data, speed, loop}) with data of DataLength candles
\* and any speed, given or left out
PlaybackInit ==
    /\ replay = NewReplay(FALSE, 1, Undefined)
    /\ srcKind = "playback"
    /\ loop \in BOOLEAN
    /\ speed \in {1} \cup SpeedArgs
    /\ speedCall = NoSpeedCall
    /\ subscribers = <<>>
    /\ unsubscribers = {}
    /\ isRunning = FALSE
    /\ timerId = "null"
    /\ orphans = 0
    /\ currentIndex = 0
    /\ currentCandle = "null"
    /\ srcPc = "idle"
    /\ emitCursor = 0
    /\ apiCalls = 0
    /\ emitRunning = FALSE
    /\ control = FALSE
    /\ lastError = "none"

PlaybackNext == SourceNext \/ SetSpeed

(***************************************************************************)
(* Claims about the store                                                  *)
(***************************************************************************)
QueryTimes == (0 - 1)..(MaxTs + 1)
Sorted == \A i \in 1..(length - 1) : ts[i] <= ts[i + 1]
CountAt(t) == Cardinality({i \in 1..length : ts[i] = t})

\* C1: after any sequence of setData, appendCandle, updateLastCandle,
\* updateOrAppend and clear the stored timestamps are non-decreasing.
C1_TimestampsSorted == Sorted

\* C2: updateOrAppend on a non-empty store keeps length when row.ts equals the
\* last timestamp, adds exactly one row when it is greater, and changes neither
\* length nor any stored value when it is smaller; on an empty store it appends
\* the row.
C2_UpdateOrAppend ==
    [][last'.op = "updateOrAppend" =>
        LET row == last'.arg
            lastTs == ReadAt(ts, length - 1)
        IN /\ (length > 0 /\ row.ts = lastTs) => length' = length
           /\ (length > 0 /\ row.ts > lastTs) => length' = length + 1
           /\ (length > 0 /\ row.ts < lastTs) => (length' = length /\ toArray' = toArray)
           /\ length = 0 => toArray' = <<row>>]_vars

\* C2 witness: an older row was offered to a store of two rows and rejected
C2_Witness ==
    /\ last.op = "updateOrAppend" /\ last.branch = "reject"
    /\ length >= 2 /\ last.arg.ts < ts[length]

\* C3 (as stated): for every reachable store content and every query time t,
\* firstIndexAtOrAfter(t) - lastIndexAtOrBefore(t) is 0 or 1.
C3_Original ==
    \A t \in QueryTimes : firstIndexAtOrAfter(R(t)) - lastIndexAtOrBefore(R(t)) \in {0, 1}

\* C3 (amended): on a store whose timestamps are non-decreasing,
\* firstIndexAtOrAfter(t) - lastIndexAtOrBefore(t) = 1 - (number of rows with
\* timestamp t): 1 when no row has timestamp t, 0 when exactly one has, and
\* negative when several rows share it.
C3_FirstMinusLast ==
    Sorted => \A t \in QueryTimes :
                  firstIndexAtOrAfter(R(t)) - lastIndexAtOrBefore(R(t)) = 1 - CountAt(t)

\* C3 witness: a sorted store holding several rows with the same timestamp
C3_Witness ==
    /\ Sorted /\ length >= 2
    /\ \E t \in QueryTimes :
          CountAt(t) >= 2 /\ firstIndexAtOrAfter(R(t)) - lastIndexAtOrBefore(R(t)) < 0


(***************************************************************************)
(* Claims about render scheduling and the plugin pipeline                  *)
(***************************************************************************)
InFrame == chartPc # "idle" /\ run = "render"

\* C4: render requests are coalesced.  At most one frame callback is ever
\* pending and the flag is set while it is; a scheduleRender call made while
\* the flag is set requests no further frame; and the flag is cleared only by
\* the step in which render() has returned: from its last phase, or at once
\* when destroy() has taken the renderer.
C4_Coalesced ==
    /\ [](rafQueue <= 1 /\ (rafQueue = 1 => renderScheduled) /\ (InFrame => renderScheduled))
    /\ [][renderScheduled => rafQueue' <= rafQueue]_vars
    /\ [][(renderScheduled /\ ~renderScheduled') =>
            /\ frameStatus' = "completed"
            /\ IF renderer
               THEN InFrame /\ chartPc = "dispatch" /\ phase = Len(RenderPhases)
                    /\ cursor >= Len(plugins)
               ELSE chartPc = "idle" /\ rafQueue' = rafQueue - 1]_vars
\* C4 witness: after a frame that completed, two requests were made for the one
\* pending frame
C4_Witness ==
    /\ frameStatus = "completed" /\ renderer
    /\ requests >= 2 /\ rafQueue = 1 /\ renderScheduled /\ chartPc = "idle"

\* C5: the render loop cannot stall: whenever the chart, not destroyed, is idle
\* with no frame callback pending, the flag is clear, so the next request is
\* honoured.
C5_NoStall == (renderer /\ chartPc = "idle" /\ rafQueue = 0) => ~renderScheduled

\* C9: every frame that has ended dispatched the five phases, once each, in
\* the order before-render, after-grid, after-axes, after-candles, after-render,
\* with the crosshair enabled and with the crosshair disabled.
C9_AllPhasesInOrder ==
    (renderer /\ frameStatus \in {"completed", "threw"}) => frameLog = RenderPhases

\* the frame callback has just started a render
FrameStart ==
    chartPc = "dispatch" /\ run = "render" /\ phase = 1 /\ cursor = 0 /\ callLog = <<>>
\* a hook of the running frame has called scheduleRender (directly, or
\* through installPlugin or uninstallPlugin, which end with it)
RequestedInFrame == InFrame /\ chartPc = "hook" /\ hookCalls > 0

\* C36: no render request is lost: a scheduleRender call made between frames
\* (a frame callback is pending after it) and one made by a plugin hook while
\* a frame's render is executing are each followed by the start of a render.
C36_NoLostRequest ==
    /\ (renderer /\ chartPc = "idle" /\ rafQueue > 0) ~> (FrameStart \/ ~renderer)
    /\ RequestedInFrame ~> (FrameStart \/ ~renderer)

\* C32: an input event is delivered exactly once to the onEvent of every
\* installed plugin that defines it, in install order: when the handling of
\* an event ends, with no install or uninstall made during it, the plugins
\* called are the installed plugins that define onEvent, in the order of the map.
C32_DeliveredToAll ==
    [][(run = "event" /\ run' = "none" /\ ~runModified)
          => [i \in 1..Len(callLog') |-> callLog'[i].name] = SelectSeq(plugins', HasOnEvent)]_vars

\* C10: executeHooks and dispatchEvent call the plugins in the order of their
\* successful installation: the installation stamps of the plugins called in
\* one loop increase strictly, and a loop that ended with no install or
\* uninstall made during it has called exactly the installed plugins that
\* define the hook.
LoopDone == chartPc = "dispatch" /\ cursor >= Len(plugins)
Installed == {p \in Plugins : stamp[p] > 0}
C10_InstallOrder ==
    /\ \A i, j \in 1..Len(callLog) : i < j => callLog[i].stamp < callLog[j].stamp
    /\ \A i \in 1..Len(callLog) : chartPc # "idle" /\ ~runModified => stamp[callLog[i].name] = callLog[i].stamp
    /\ (LoopDone /\ ~runModified) =>
          {callLog[i].name : i \in 1..Len(callLog)} =
              {p \in Installed : IF run = "render" THEN HasOnRender(p) ELSE HasOnEvent(p)}
\* C10 witness: a loop over two plugins has ended, after an uninstall and a
\* re-install put the plugin named "a" behind the plugin named "b"
C10_Witness ==
    /\ LoopDone /\ ~runModified
    /\ Len(callLog) = 2
    /\ callLog[1].name = "b" /\ callLog[2].name = "a"
    /\ clock >= 3

\* C11: for every plugin onInstall and onUninstall are invoked in turn,
\* starting with onInstall, one per successful install or uninstall: the hook
\* due next is onUninstall exactly while the plugin is installed; and every
\* onRender or onEvent call went to a plugin that was installed at the call.
C11_Lifecycle ==
    /\ \A p \in Plugins : MapHas(plugins, p) <=> lifecycle[p] = "onUninstall"
    /\ \A i \in 1..Len(callLog) : callLog[i].stamp > 0

\* a step that appends the row last.arg, by appendCandle or by updateOrAppend
AppendStep == last'.branch = "append" /\ length' = length + 1

\* C18: after appendCandle(row), getCandle(length - 1) returns the ts, open,
\* high, low, close and volume of row, also when row is the first to carry a
\* volume and the store holds rows stored without one, and every row stored
\* before reads back as it did.
C18_AppendRoundTrip ==
    [][AppendStep =>
           /\ getCandle(length - 1)' = last'.arg
           /\ \A i \in 0..(length - 1) : getCandle(i)' = getCandle(i)]_vars

\* the index arguments: every index of a row, and two on either side
IndexArgs == (0 - 2)..(MaxLen + 2)

\* C38: for any integer arguments (negative, beyond length, inverted) the view
\* rangeByIndex returns has 0 <= startIndex <= endIndex <= length and
\* length = endIndex - startIndex
C38_RangeByIndex ==
    \A i, j \in IndexArgs :
        \E view \in {rangeByIndex(i, j)} :
            /\ 0 <= view.startIndex
            /\ view.startIndex <= view.endIndex
            /\ view.endIndex <= length
            /\ view.length = view.endIndex - view.startIndex

\* the capacities grow() goes through from a capacity: the first one that holds n rows
RECURSIVE FirstCapacity(_, _)
FirstCapacity(capacity, n) ==
    IF capacity >= n THEN capacity ELSE FirstCapacity(NewCapacity(capacity), n)
\* the arrays a row is stored in
Columns == <<ts, open, high, low, close>> \o (IF volume.isNull THEN <<>> ELSE <<volume.arr>>)

\* C37: every backing column holds at least length rows; an append replaces the columns
\* only when length equals the capacity, the new capacity is max(16, ceil(1.5 x capacity)),
\* and after N appends to an empty store the capacity is the first one of the growth
\* steps from 0 that holds N rows (one reallocation per growth step)
C37_Capacity ==
    /\ [](\A i \in 1..Len(Columns) : Len(Columns[i]) >= length)
    /\ [][length' = length + 1 =>
            /\ Len(ts') # Len(ts) <=> length = Len(ts)
            /\ Len(ts') # Len(ts) => Len(ts') = Max(16, (3 * Len(ts) + 1) \div 2)]_vars
    /\ [](Len(ts) = FirstCapacity(0, length))

\* C21: from an empty store or a store built by setData, every updateOrAppend
\* (and every setData) leaves the stored timestamps non-decreasing, and an
\* updateOrAppend with a row older than the last stored row changes no stored
\* row.
C21_UpsertKeepsOrder ==
    [][/\ Sorted'
       /\ (/\ last'.op = "updateOrAppend" /\ length > 0
           /\ last'.arg.ts < ReadAt(ts, length - 1)) => toArray' = toArray]_vars

\* C21 witness: a store of two rows with distinct timestamps was offered a row
\* older than its last row, by updateOrAppend
C21_Witness ==
    /\ last.op = "updateOrAppend"
    /\ length >= 2 /\ ts[length - 1] < ts[length]
    /\ last.arg.ts < ts[length]

\* the query times: the stored timestamps, the times between them and one
\* time on either side
QueryTargets == {Num(k, 2) : k \in (0 - 2)..(2 * MaxTs + 2)}
\* the rows at or after t and the rows at or before t, as indices
RowsAtOrAfter(t) == {i \in 0..(length - 1) : FLe(t, R(ts[i + 1]))}
RowsAtOrBefore(t) == {i \in 0..(length - 1) : FLe(R(ts[i + 1]), t)}

\* C22: on a store whose timestamps are non-decreasing, whatever its capacity,
\* firstIndexAtOrAfter(t) is the smallest index of a row with ts >= t, or
\* length when there is none, lastIndexAtOrBefore(t) is the largest index of a
\* row with ts <= t, or -1 when there is none, and both are non-decreasing
\* in t.
C22_BinarySearch ==
    Sorted =>
        /\ \A t \in QueryTargets :
              /\ firstIndexAtOrAfter(t) =
                     IF RowsAtOrAfter(t) = {} THEN length
                     ELSE CHOOSE i \in RowsAtOrAfter(t) : \A j \in RowsAtOrAfter(t) : i <= j
              /\ lastIndexAtOrBefore(t) =
                     IF RowsAtOrBefore(t) = {} THEN 0 - 1
                     ELSE CHOOSE i \in RowsAtOrBefore(t) : \A j \in RowsAtOrBefore(t) : i >= j
        /\ \A t0, t1 \in QueryTargets :
              FLe(t0, t1) => /\ firstIndexAtOrAfter(t0) <= firstIndexAtOrAfter(t1)
                             /\ lastIndexAtOrBefore(t0) <= lastIndexAtOrBefore(t1)

\* C22 witness: a sorted store of two rows (one of them appended, so that the
\* columns are longer than the store) is searched for its two timestamps
C22_Witness ==
    /\ Sorted /\ length >= 2 /\ Len(ts) > length /\ ts[1] < ts[2]
    /\ firstIndexAtOrAfter(R(ts[2])) = 1
    /\ lastIndexAtOrBefore(R(ts[1])) = 0

\* the rows a view holds, read the way getCandle reads the store
ViewRows(view) ==
    [i \in 1..view.length |->
        [ts |-> ReadAt(view.ts, i - 1), open |-> ReadAt(view.open, i - 1),
         high |-> ReadAt(view.high, i - 1), low |-> ReadAt(view.low, i - 1),
         close |-> ReadAt(view.close, i - 1),
         volume |-> IF view.volume.isNull THEN Undefined
                    ELSE ReadAt(view.volume.arr, i - 1)]]
\* the stored rows with t0 <= ts <= t1, in stored order
RowsBetween(t0, t1) ==
    LET Within(c) == FLe(t0, R(c.ts)) /\ FLe(R(c.ts), t1) IN SelectSeq(toArray, Within)

\* C23: on a store whose timestamps are non-decreasing, the view returned by
\* rangeByTime(t0, t1) holds exactly the stored rows with t0 <= ts <= t1, in
\* stored order, and has length 0 when t0 > t1 or no row lies in the range.
C23_RangeByTime ==
    Sorted =>
        \A t0, t1 \in QueryTargets :
            \E view \in {rangeByTime(t0, t1)} :
                /\ ViewRows(view) = RowsBetween(t0, t1)
                /\ view.length = view.endIndex - view.startIndex
                /\ (FGt(t0, t1) \/ RowsBetween(t0, t1) = <<>>) => view.length = 0

\* C23 witness: a sorted store of two rows with a volume column; the range
\* from the last timestamp to itself picks one row, the inverted range none
C23_Witness ==
    /\ Sorted /\ length >= 2 /\ ts[1] < ts[2] /\ hasVolume
    /\ rangeByTime(R(ts[2]), R(ts[2])).length = 1
    /\ rangeByTime(R(ts[1]), R(ts[2])).length = 2
    /\ rangeByTime(R(ts[2]), R(ts[1])).length = 0

(***************************************************************************)
(* Claims about the pan gesture                                            *)
(***************************************************************************)
\* C6: right after a pointer-cancel that ends a drag, the viewport's time
\* range and its price range (min, max) are the values they had at the
\* primary pointer-down that started the drag, whatever pointer-moves, wheel
\* zooms, scrolls and render frames came in between, and the handler is Idle.
C6_CancelRestores ==
    cancelResult # "none" =>
        /\ timeRange = downRange.timeRange
        /\ priceConfig.min = downRange.min
        /\ priceConfig.max = downRange.max
        /\ getMode = "idle"
\* C6 witness: the cancel came when both the time range and the price range
\* differed from their values at the pointer-down
C6_Witness == cancelResult = "changed" /\ ~isPanning

(***************************************************************************)
(* Claims about the data sources                                           *)
(***************************************************************************)
\* ArrayPlaybackSource.isComplete on a source that does not loop
PlaybackOver == srcKind = "playback" /\ ~loop /\ currentIndex >= DataLength

\* C7: a source driven only through subscribe and the unsubscribe functions
\* is active exactly while it has subscribers: with no subscriber it is not
\* running and has no pending timer; between emissions, with at least one
\* subscriber and data left to play, it is running on one pending timer; and
\* it never has a second pending timer.
C7_RefCounted ==
    ~control =>
        /\ orphans = 0
        /\ Len(subscribers) = 0 => (~isRunning /\ PendingTimers = 0)
        /\ (Len(subscribers) >= 1 /\ srcPc = "idle" /\ ~PlaybackOver) =>
               (isRunning /\ timerId = "pending")

\* C8: while a source is stopped none of its timers is pending, and no
\* callback is called for an emission whose timer fired while it was stopped.
C8_StoppedIsQuiet ==
    /\ ~isRunning => PendingTimers = 0
    /\ srcPc = "callback" => emitRunning

\* C34: every invocation of scheduleNext terminates, having either armed one
\* timer or marked the source as not running: no call of the source ends in
\* a stack overflow, and the invocation that ends an emission returns with a
\* timer armed exactly when it leaves the source running.
C34_ScheduleNextTerminates ==
    /\ lastError # "RangeError"
    /\ (srcKind = "playback" /\ srcPc = "notify" /\ emitCursor >= Len(subscribers)) =>
           \E r \in {scheduleNext(isRunning, currentIndex + 1, 0)} :
               ~r.overflow /\ (r.armed <=> r.isRunning)

\* C33: the timestamps of the candles an ArrayPlaybackSource delivers are
\* non-decreasing in emission order: every candle emitted after another has a
\* timestamp at least that of the one before, across loop restarts, with a
\* fixed interval, and after stop / start, reset and setSpeed.
C33_EmittedInOrder ==
    [][(replay'.emitted # replay.emitted /\ replay.lastTs # Undefined)
          => replay'.lastTs >= replay.lastTs]_vars

(***************************************************************************)
(* Claims about the viewport                                               *)
(***************************************************************************)
ViewportCall(name) == vpOp' # vpOp /\ vpOp'.name = name

\* The zoom that vpOp records, in double precision: its factor and pixel, the
\* time under the pixel and the span before and after it
ZoomedRounded == vpOp.name = "zoom" /\ TimeSpan_Double(vpOp.before) # Zero /\ width.n # 0
CenterBefore == invX_At(vpOp.before, vpOp.args[2])
CenterAfter == invX_At(timeRange, vpOp.args[2])
SpanBefore == TimeSpan_Double(vpOp.before)
SpanAfter == TimeSpan_Double(timeRange)
\* (|width| + |centerX|)^2 and width^2, whose ratio is (1 + |centerX / width|)^2
ReachSquared == Whole((Abs(width.n) + Abs(vpOp.args[2])) * (Abs(width.n) + Abs(vpOp.args[2])))
WidthSquared == Whole(width.n * width.n)
\* 2^-46 * max(|start|, |end|) * (|width| + |centerX|)^2, of the range before
ZoomUnit ==
    TimesPow2(Times(DAbsMax(vpOp.before.start, vpOp.before.end), ReachSquared), 0 - 46)
\* the doubles resolve the span of the range before the zoom:
\* 2^-46 * max(|start|, |end|) * (1 + |centerX / width|)^2 <= |end - start|
SpanResolved ==
    DAbsLe(ZoomUnit, Times(Minus(vpOp.before.end, vpOp.before.start), WidthSquared))
\* |difference| <= 2^-46 * max(|start|, |end|) * (1 + |centerX / width|)^2
\*                       * (1 + 1 / factor), given difference * factor
ZoomTolerance(timesFactor) ==
    DAbsLe(Times(timesFactor, WidthSquared), Times(ZoomUnit, Plus(vpOp.args[1], Whole(1))))

\* C12 as stated: zoom(factor, centerX) on a viewport with non-zero time span
\* and non-zero width leaves invX(centerX) as it was and makes the new span
\* the old span divided by factor, exactly.
C12_ZoomKeepsCenter ==
    ZoomedRounded =>
        /\ CenterAfter = CenterBefore
        /\ SpanAfter = DDiv(SpanBefore, vpOp.args[1])

\* C12: zoom(factor, centerX) on such a viewport leaves invX(centerX) as it
\* was and makes the new span the old span divided by factor up to the
\* rounding of the doubles: where the doubles resolve the span, both differ
\* from the exact values by at most 2^-46 * max(|start|, |end|) *
\* (1 + |centerX / width|)^2 * (1 + 1 / factor).
C12_ZoomWithinRounding ==
    (ZoomedRounded /\ SpanResolved) =>
        /\ ZoomTolerance(Times(Minus(CenterAfter, CenterBefore), vpOp.args[1]))
        /\ ZoomTolerance(Minus(Times(SpanAfter, vpOp.args[1]), SpanBefore))
\* C12 witness: zoom(3, 3) on the range 0..10 of a chart 4 wide has left a
\* span that is not the double nearest to 10 / 3
C12_Witness ==
    /\ ZoomedRounded /\ SpanResolved
    /\ vpOp.args = <<FromInt(3), 3>>
    /\ vpOp.before = [start |-> FromInt(0), end |-> FromInt(10)]
    /\ timeRange.start = FromInt(5)
    /\ SpanAfter # DDiv(SpanBefore, vpOp.args[1])
    /\ ZoomTolerance(Minus(Times(SpanAfter, vpOp.args[1]), SpanBefore))

\* a clampTimeRange(args) call on a range with finite ends
ClampCall(args) ==
    /\ ViewportCall("clampTimeRange") /\ vpOp'.args = args
    /\ isFinite(timeRange.start) /\ isFinite(timeRange.end)
\* minTime <= maxTime and 0 <= minSpan <= maxSpan
ValidClampArgs(args) ==
    FLe(args[1], args[2]) /\ FLe(R(0), args[3]) /\ FLe(args[3], args[4])

\* C13 (as stated): after clampTimeRange with minTime <= maxTime and
\* 0 <= minSpan <= maxSpan the range satisfies minTime <= start and
\* end <= maxTime.
C13_Original ==
    [][\A args \in ClampArgs :
          (ClampCall(args) /\ ValidClampArgs(args)) =>
              (FLe(args[1], timeRange.start) /\ FLe(timeRange.end, args[2]))']_vars

\* C13 (amended): after such a clampTimeRange on a range with finite ends,
\* end <= maxTime; and minTime <= start when the resulting span is at most
\* maxTime - minTime, while for a larger span end = maxTime and
\* start = maxTime - span lies before minTime.
C13_ClampWithinBounds ==
    [][\A args \in ClampArgs :
          (ClampCall(args) /\ ValidClampArgs(args)) =>
              (/\ FLe(timeRange.end, args[2])
               /\ FLe(getTimeSpan, FSub(args[2], args[1])) => FLe(args[1], timeRange.start)
               /\ FGt(getTimeSpan, FSub(args[2], args[1])) =>
                      (timeRange.end = args[2] /\ FLt(timeRange.start, args[1])))']_vars
\* C13 witness: the range was re-spanned to minSpan = 1000 inside bounds 500
\* apart, and starts before minTime
C13_Witness ==
    /\ vpOp.name = "clampTimeRange" /\ vpOp.args = <<R(0), R(500), R(1000), R(2000)>>
    /\ timeRange = [start |-> R(0 - 500), end |-> R(500)]

FiniteRanges ==
    /\ isFinite(timeRange.start) /\ isFinite(timeRange.end)
    /\ isFinite(priceConfig.min) /\ isFinite(priceConfig.max)
\* a zoom call on a time range with start = end
DegenerateZoom == ViewportCall("zoom") /\ timeRange.start = timeRange.end
\* a pointer event during a drag whose axis has no pixels
DegenerateMove ==
    /\ vpOp' = vpOp /\ isPanning /\ isPanning'
    /\ \/ panState.mode = "panning-time" /\ width = R(0)
       \/ panState.mode = "panning-price" /\ height = R(0)

\* C15: zoom on a viewport whose time range has start = end, and a pointer-move
\* of a pan drag on a viewport whose width (time mode) or height (price mode)
\* is 0, leave the time and price ranges with finite ends.
C15_NoDivisionByZero ==
    [][(FiniteRanges /\ (DegenerateZoom \/ DegenerateMove)) => FiniteRanges']_vars

(***************************************************************************)
(* Claims about the chart's frames                                         *)
(***************************************************************************)
\* a step that runs a whole animation frame of a chart that has its renderer
FrameStep == rafQueue' = rafQueue - 1 /\ renderer /\ renderer'

\* C16: once the chart has built its viewport, every render frame leaves the
\* time range of the viewport as it was before the frame, whatever the series
\* holds by then, until resetViewport is called; the frame sets the pixel
\* dimensions and the price range.
C16_FramesKeepTimeRange ==
    [][(FrameStep /\ hasInitialViewport) =>
           /\ timeRange' = timeRange
           /\ width' = ChartArea.width /\ height' = ChartArea.height
           /\ UNCHANGED <<zoomBounds, panState, hasInitialViewport>>]_vars
\* C16 witness: a frame has run after a connected source appended a candle
\* whose timestamp lies past the right edge of the viewport, the case of the
\* auto-scroll shift
C16_Witness ==
    /\ frameStatus = "completed" /\ rafQueue = 0 /\ hasInitialViewport
    /\ last.op = "updateOrAppend" /\ last.branch = "append"
    /\ dataSourceSubscriptions # {}
    /\ FGt(DataTimeDomain.max, timeRange.end)

\* C35: when a data source is connected and a frame of a chart that has its
\* viewport finds the largest timestamp of the data beyond the right edge of
\* the viewport, the frame shifts the time range forward by the excess: the
\* span is unchanged and the end is the largest timestamp of the data.
C35_AutoScroll ==
    [][(FrameStep /\ hasInitialViewport /\ ConnectedSources > 0
          /\ FGt(DataTimeDomain.max, timeRange.end))
          => /\ timeRange'.end = DataTimeDomain.max
             /\ FSub(timeRange'.end, timeRange'.start) = FSub(timeRange.end, timeRange.start)]_vars

(***************************************************************************)
(* Claims about the chart's listeners and the viewport of its handlers     *)
(***************************************************************************)
InteractionHandlers == {"panHandler", "zoomHandler", "scrollHandler", "crosshair"}
\* how often the listeners called the handler for the last event
HandlerCalls(name) == Cardinality({i \in 1..Len(wiring.calls) : wiring.calls[i] = name})
\* the viewports the handler objects were constructed with
HandlerViewports ==
    {wiring.panHandler.viewport, wiring.zoomHandler.viewport, wiring.scrollHandler.viewport,
     wiring.crosshair.viewport, wiring.crosshairRenderer.viewport}

\* the listeners of the type that the chart registered itself
OwnHandlers(w, type) == SelectSeq(w.handlers[type], LAMBDA name : name \notin AppHandlers)

\* C39: until the chart is destroyed, the number of listeners it has registered
\* itself with its event manager for each event type (those of chart.on
\* are the application's) is the same after every frame, viewport replacement,
\* resetViewport, chart.on and chart.off as after construction, and the
\* listeners of one event call each interaction handler (pan, zoom, scroll,
\* crosshair) at most once.
C39_ListenersFixed ==
    /\ [][wiring'.renderer =>
             \A type \in ChartEventTypes :
                 Len(OwnHandlers(wiring', type)) = Len(OwnHandlers(wiring, type))]_vars
    /\ [](\A name \in InteractionHandlers : HandlerCalls(name) <= 1)
\* C39 witness: a wheel event after the chart has replaced its viewport and its
\* handlers twice and the application has registered a handler of its own; the
\* ScrollHandler declined the event, the ZoomHandler was called once, and the
\* chart's own listeners of the wheel are the two of the constructor
C39_Witness ==
    /\ wiring.op = "wheel"
    /\ wiring.created >= 3
    /\ wiring.viewport # NullViewport
    /\ HandlerCalls("scrollHandler") = 1
    /\ HandlerCalls("zoomHandler") = 1
    /\ wiring.handlers["wheel"] = <<"plugins", "wheel", "h">>

\* C40: after every frame of a chart that is not destroyed the chart has a
\* viewport, and whenever it has one the pan, zoom and scroll handlers, the
\* crosshair and its renderer are the ones constructed with that viewport, for
\* any sequence of addSeries, clearSeries, resetViewport, data updates, events
\* and frames.
C40_HandlersHoldViewport ==
    wiring.renderer =>
        /\ wiring.op = "frame" => wiring.viewport # NullViewport
        /\ wiring.viewport # NullViewport => HandlerViewports = {wiring.viewport}
\* C40 witness: the frame, completed, after a resetViewport on a chart with a
\* series, the third viewport the chart has constructed
C40_Witness ==
    /\ wiring.op = "frame"
    /\ wiring.renderer /\ ~wiring.renderScheduled
    /\ wiring.created = 3
    /\ wiring.seriesList > 0
    /\ wiring.hasInitialViewport
    /\ HandlerViewports = {3}

(***************************************************************************)
(* Claims about the crosshair                                              *)
(***************************************************************************)
\* the indices of the candles whose timestamp lies in the time range
VisibleIndices ==
    {i \in 0..(length - 1) :
        FLe(timeRange.start, R(ReadAt(ts, i))) /\ FLe(R(ReadAt(ts, i)), timeRange.end)}
\* the state of the crosshair is the one documented for the event e
Snapped(e) ==
    /\ crosshair.x = e.chartX /\ crosshair.y = e.chartY
    /\ crosshair.time = invX(R(e.chartX)) /\ crosshair.price = invY(R(e.chartY))
    /\ IF VisibleIndices # {}
       THEN /\ crosshair.candleIndex \in VisibleIndices
            /\ crosshair.candle = getCandle(crosshair.candleIndex)
            /\ \A j \in VisibleIndices :
                   FLe(FAbs(FSub(R(ReadAt(ts, crosshair.candleIndex)), crosshair.time)),
                       FAbs(FSub(R(ReadAt(ts, j)), crosshair.time)))
       ELSE crosshair.candle = Null /\ crosshair.candleIndex = 0 - 1
\* a pointer-move step of the crosshair with the event e
MoveStep(e) ==
    /\ crosshair'.visible /\ crosshair'.x = e.chartX /\ crosshair'.y = e.chartY
    /\ UNCHANGED <<storeVars, viewportVars>>

\* C17: after every pointer-move of the crosshair with a series set, if a
\* candle has its timestamp inside the time range of the viewport, the
\* crosshair's candle is a candle of that range nearest to the cursor time and
\* candleIndex is its index; otherwise candle is null and candleIndex is -1;
\* x, y, time and price are set from the pointer position.
C17_SnapNearest ==
    [][\A e \in CrosshairEvents : MoveStep(e) => Snapped(e)']_vars

(***************************************************************************)
(* Claims about the change listeners                                       *)
(***************************************************************************)
\* how often the listener occurs in a log
Count(log, listener) == Len(SelectSeq(log, LAMBDA l : l = listener))

\* C19: each call of setData, clear, appendCandle, updateLastCandle on a
\* non-empty store and each accepted updateOrAppend invokes every registered
\* listener exactly once, before the call returns and in registration order
\* (for notifications during which the set of listeners is not changed); a
\* read, updateLastCandle on an empty store and a rejected updateOrAppend
\* invoke no listener.
C19_NotifyAllInOrder ==
    [][/\ (storePc = "idle" /\ last'.branch \in {"set", "append", "update"}
              /\ last'.op # "new" /\ storeVars' # storeVars) => storePc' = "notify"
       /\ (storePc # "idle" /\ storePc' = "idle"
              /\ notifyRemoved' = {} /\ notifyAdded' = {}) => notifyLog' = notifyStart'
       /\ (storePc = "idle" /\ last'.branch \in {"reject", "read"}) =>
              (storePc' = "idle" /\ notifyLog' = notifyLog)]_vars

\* C20: when a listener calls an unsubscribe function during a notification,
\* the notification completes without error, every listener registered
\* throughout it is invoked exactly once in it, and no notification invokes a
\* listener that is not subscribed at that moment.
C20_UnsubscribeSafe ==
    [][/\ (storePc # "idle" /\ storePc' = "idle" /\ notifyRemoved' # {}) =>
              /\ notifyStatus' = "completed"
              /\ \A l \in ChangeListeners :
                     (MapHas(notifyStart', l) /\ l \notin notifyRemoved')
                         => Count(notifyLog', l) = 1
       /\ (storePc = "notify" /\ storePc' = "listener") =>
              /\ MapHas(listeners, notifyLog'[Len(notifyLog')])
              /\ notifyLog'[Len(notifyLog')] \in notifyRemoved
                     => notifyLog'[Len(notifyLog')] \in notifyAdded]_vars

\* C26: an ArrayPlaybackSource never holds a speed that is not positive, and
\* a setSpeed that is rejected with an error leaves the speed and the running
\* state as they were.
C26_SpeedPositive ==
    /\ [](speed > 0)
    /\ [][speedCall' # speedCall =>
             /\ speedCall'.arg <= 0 => speedCall'.threw
             /\ speedCall'.threw => speed' = speed /\ isRunning' = isRunning]_vars

\* a step in which the running source emits a candle; a step that starts the
\* source again (stop and start, updateConfig) leaves no candle and begins a
\* new run of emissions
EmitStep ==
    /\ walk.running /\ walk'.running /\ ~walk'.candle.isNull
    /\ <<walk'.candle, walk'.price, walk'.now>> # <<walk.candle, walk.price, walk.now>>

\* C27: every candle a running RandomWalkSource emits has low <= open <= high
\* and low <= close <= high, and its close is the latest price; while the
\* timestamp stays the same the open is constant, high does not decrease, low
\* does not increase and volume does not decrease; the timestamp changes only
\* when at least candleDuration has passed since the current candle's
\* timestamp, and then it is that timestamp plus candleDuration.
C27_WalkCandles ==
    [][EmitStep =>
          LET prev == walk.candle
              emitted == walk'.candle
          IN /\ emitted.low <= emitted.open /\ emitted.open <= emitted.high
             /\ emitted.low <= emitted.close /\ emitted.close <= emitted.high
             /\ emitted.close = walk'.price
             /\ (~prev.isNull /\ emitted.ts = prev.ts) =>
                    /\ emitted.open = prev.open
                    /\ emitted.high >= prev.high
                    /\ emitted.low <= prev.low
                    /\ emitted.volume >= prev.volume
             /\ (~prev.isNull /\ emitted.ts # prev.ts) =>
                    /\ walk'.now - prev.ts >= walk.candleDuration
                    /\ emitted.ts = prev.ts + walk.candleDuration]_vars

\* C27 witness: the source has emitted its second candle in a row, more than
\* two candle durations after the first one began, and has moved its price
C27_Witness ==
    /\ walk.running /\ ~walk.candle.isNull /\ walk.candleDuration = CandleDuration
    /\ walk.candle.ts = 2 * CandleDuration /\ walk.now > 3 * CandleDuration
    /\ walk.candle.high > walk.candle.open /\ walk.candle.volume > 0

(***************************************************************************)
(* Claims about the chart's zooms                                          *)
(***************************************************************************)
\* the time span lies in [minVisibleBars, maxVisibleBars] x avgCandleDuration
\* and the time range within the data bounds of the ZoomHandler
ZoomWithinBounds ==
    /\ FLe(FMul(zoomBounds.avgCandleDuration, Options.minVisibleBars), getTimeSpan)
    /\ FLe(getTimeSpan, FMul(zoomBounds.avgCandleDuration, Options.maxVisibleBars))
    /\ FLe(zoomBounds.minTime, timeRange.start)
    /\ FLe(timeRange.end, zoomBounds.maxTime)

\* C25: after every wheel zoom, zoomIn and zoomOut of the chart, with the data
\* bounds and the average candle duration derived from the first series
\* (empty or not), the time span lies in [minVisibleBars x avgCandleDuration,
\* maxVisibleBars x avgCandleDuration] and the time range within [minTime,
\* maxTime].
C25_ZoomWithinBounds == [][ZoomWithinBounds']_vars

(***************************************************************************)
(* Claims about the PanHandler called directly                             *)
(***************************************************************************)
\* a step that is a direct call of one of the PanHandler methods names
PanHandlerCall(names) == panCall' # panCall /\ panCall'.name \in names

\* C24: a pointer-down with button 0 on an Idle handler selects PanningPrice
\* with altKey and PanningTime without; while panning the mode changes only by
\* a pointer-up or a pointer-cancel, which make it Idle; a pointer-down with
\* another button, and a pointer-move, pointer-up or pointer-cancel while
\* Idle, change neither the mode nor the viewport and do not invoke the update
\* callback.
C24_PanModes ==
    [][/\ (PanHandlerCall({"onPointerDown"}) /\ panCall'.button = 0 /\ getMode = "idle")
            => getMode' = IF panCall'.altKey THEN "panning-price" ELSE "panning-time"
       /\ (PanHandlerCall({"onPointerDown", "onPointerMove"}) /\ getMode # "idle")
            => getMode' = getMode
       /\ PanHandlerCall({"onPointerUp", "onPointerCancel"}) => getMode' = "idle"
       /\ (\/ PanHandlerCall({"onPointerDown"}) /\ panCall'.button # 0
           \/ PanHandlerCall({"onPointerMove", "onPointerUp", "onPointerCancel"})
                 /\ getMode = "idle")
            => /\ getMode' = getMode
               /\ timeRange' = timeRange /\ priceConfig' = priceConfig
               /\ ~panCall'.updated]_vars


(***************************************************************************)
(* Claims about the PluginManager called directly                          *)
(***************************************************************************)
\* the map, the installed objects (stamp) and the hooks invoked (lifecycle)
\* are as before the step
PluginsUntouched ==
    plugins' = plugins /\ stamp' = stamp /\ clock' = clock /\ lifecycle' = lifecycle

\* C30: install of a plugin whose name is installed leaves the installed
\* plugins, their order and the installed plugin objects as they were and
\* invokes no onInstall; uninstall of a name that is not installed changes
\* nothing and invokes no onUninstall; neither throws.
C30_NoOpCalls ==
    [][pluginCall' # pluginCall =>
          /\ (pluginCall'.op = "install" /\ MapHas(plugins, pluginCall'.name))
                 => PluginsUntouched /\ ~pluginCall'.threw
          /\ (pluginCall'.op = "uninstall" /\ ~MapHas(plugins, pluginCall'.name))
                 => PluginsUntouched /\ ~pluginCall'.threw]_vars

\* a second install of the plugin that is first of two in the map
C30_Witness ==
    /\ pluginCall.op = "install" /\ pluginCall.had
    /\ Len(plugins) >= 2 /\ plugins[1] = pluginCall.name

(***************************************************************************)
(* Claims about the wheel                                                  *)
(***************************************************************************)
\* a wheel event has been handled
WheelStep == wheelLog'.flip # wheelLog.flip
\* the step moved both ends of the time range by delta * 0.01 * span
ScrolledBy(delta) ==
    \E shift \in {FMul(FMul(R(delta), Num(1, 100)), getTimeSpan)} :
        /\ timeRange'.start = FAdd(timeRange.start, shift)
        /\ timeRange'.end = FAdd(timeRange.end, shift)
        /\ FSub(timeRange'.end, timeRange'.start) = getTimeSpan
\* the step zoomed as the ZoomHandler does for the event
ZoomedBy(e) == timeRange' = clampZoom(ZoomedTime(ZoomFactor(e.deltaY), R(e.chartX)))

\* C29: a wheel event is answered by at most one of scroll and zoom, chosen
\* by the mode most recently set (by the constructor or by setWheelMode): zoom
\* in mode zoomX, scroll by deltaY in mode scrollX, in mode blend scroll by
\* deltaX when |deltaX| > |deltaY| and zoom otherwise; a scroll moves both ends
\* of the time range by delta * 0.01 * span and keeps the span; the price
\* range is not touched.
C29_WheelModes ==
    [][WheelStep =>
          /\ Cardinality(wheelLog'.applied) <= 1
          /\ priceConfig' = priceConfig
          /\ \E e \in {wheelLog'.e} :
                 CASE wheelLog.set = "zoomX" ->
                          wheelLog'.applied = {"zoom"} /\ ZoomedBy(e)
                   [] wheelLog.set = "scrollX" ->
                          wheelLog'.applied = {"scroll"} /\ ScrolledBy(e.deltaY)
                   [] wheelLog.set = "blend" ->
                          IF Abs(e.deltaX) > Abs(e.deltaY)
                          THEN wheelLog'.applied = {"scroll"} /\ ScrolledBy(e.deltaX)
                          ELSE wheelLog'.applied = {"zoom"} /\ ZoomedBy(e)]_vars



(***************************************************************************)
(* Claims about the scale functions                                        *)
(***************************************************************************)
NonDegenerate ==
    /\ timeRange.end # timeRange.start /\ width # R(0)
    /\ priceConfig.max # priceConfig.min
    /\ height.n - 2 * priceConfig.paddingPx.n # 0

\* the largest magnitude among the ends of a range and a value in its units
Magnitude(from, to, value) == Max(Max(Abs(from), Abs(to)), Abs(value))
\* what came back less what was sent
RoundTripError == Minus(scaled.back, Whole(scaled.arg))
\* |invX(xScale(ts)) - ts| <= 2^-48 * max(|start|, |end|, |ts|)
TimeWithinRounding ==
    DAbsLe(RoundTripError,
           TimesPow2(Whole(Magnitude(timeRange.start.n, timeRange.end.n, scaled.arg)), 0 - 48))
\* |invY(yScale(p)) - p| <= 2^-48 * max(|min|, |max|, |p|) * (1 + |paddingPx / available|),
\* available the height less twice the padding; both sides times |available|
PriceWithinRounding ==
    \E available \in {Abs(height.n - 2 * priceConfig.paddingPx.n)} :
        DAbsLe(Times(RoundTripError, Whole(available)),
               TimesPow2(Whole(Magnitude(priceConfig.min.n, priceConfig.max.n, scaled.arg)
                                  * (available + Abs(priceConfig.paddingPx.n))),
                         0 - 48))

\* C28 as stated: in a viewport with end # start, width # 0, max # min and
\* height - 2 * paddingPx # 0, invX(xScale(ts)) is ts and invY(yScale(p)) is p,
\* exactly.
C28_ExactRoundTrip ==
    (NonDegenerate /\ scaled.fn # "none") => scaled.back = FromInt(scaled.arg)

\* C28: in such a viewport invX(xScale(ts)) is ts and invY(yScale(p)) is p up
\* to the rounding of the doubles: the timestamp comes back within 2^-48 of
\* the largest magnitude among start, end and ts, the price within 2^-48 of
\* the largest magnitude among min, max and p, times
\* 1 + |paddingPx / (height - 2 * paddingPx)|.
C28_RoundTrip ==
    NonDegenerate =>
        /\ scaled.fn = "xScale" => TimeWithinRounding
        /\ scaled.fn = "yScale" => PriceWithinRounding

\* C28 witness: the price 1 came back changed by more than 2^-50 of the price
\* range 0..100, through a chart 1001 high with a padding of 500
C28_Witness ==
    /\ NonDegenerate /\ scaled.fn = "yScale" /\ scaled.arg = 1
    /\ priceConfig = [min |-> R(0), max |-> R(100), paddingPx |-> R(500)] /\ height = R(1001)
    /\ ~DAbsLe(RoundTripError, TimesPow2(Whole(100), 0 - 50))
    /\ PriceWithinRounding

(***************************************************************************)
(* Claims about the fallback values of the scale functions                 *)
(***************************************************************************)
\* u is half of the whole number n
HalfOf(u, n) == DMulInt(u, 2) = FromInt(n)

\* C31: xScale returns 0 when end = start, yScale returns height / 2 when
\* max = min, invX returns start when width = 0, invY returns (min + max) / 2
\* when height - 2 * paddingPx = 0, and no call of the four divides by zero.
C31_Fallbacks ==
    /\ (scaled.fn = "xScale" /\ timeRange.end = timeRange.start) => scaled.px = Zero
    /\ (scaled.fn = "yScale" /\ priceConfig.max = priceConfig.min)
           => HalfOf(scaled.px, height.n)
    /\ (scaled.fn = "invX" /\ width = R(0)) => scaled.back = FromInt(timeRange.start.n)
    /\ (scaled.fn = "invY" /\ height.n - 2 * priceConfig.paddingPx.n = 0)
           => HalfOf(scaled.back, priceConfig.min.n + priceConfig.max.n)
    /\ 0 \notin scaled.divs

\* invY of a pixel in a viewport whose padding takes the whole height, between
\* two different prices
C31_Witness ==
    /\ scaled.fn = "invY" /\ scaled.arg = 1
    /\ height = R(4) /\ priceConfig.paddingPx = R(2)
    /\ priceConfig.min = R(0) /\ priceConfig.max = R(100)
    /\ scaled.back = FromInt(50)

(***************************************************************************)
(* Specifications, one per component                                       *)
(***************************************************************************)
\* an empty series, the chart that has drawn it in its first frame, and a
\* source not yet subscribed to
Init == StoreInit /\ ChartInit /\ ViewportInit /\ SourceInit /\ srcKind = "randomWalk"

\* the chart constructed with the crosshair enabled or disabled, its one series
\* added, before its first frame
ChartSpecInit ==
    /\ StoreInit
    /\ \E enabled \in BOOLEAN : SeriesAdded(WithCrosshair(enabled))
    /\ WheelInit(Options.wheelMode)
    /\ TempViewportInit /\ SourceInit /\ srcKind = "randomWalk"

SpecStore == Init /\ [][StoreNext]_vars

\* a chart constructed with any interaction options: series added and removed,
\* resetViewport, data updates, events and frames
WiringInit ==
    /\ StoreInit
    /\ \E options \in InteractionOptions : NewChart(options) /\ WheelInit(options.wheelMode)
    /\ TempViewportInit /\ SourceInit /\ srcKind = "randomWalk"

SpecWiring == WiringInit /\ [][WiringNext]_vars

\* a store fed by appendCandle only
SpecGrow == Init /\ [][GrowNext]_vars

\* a store fed by setData and updateOrAppend only
UpsertNext == SetData \/ UpdateOrAppend

SpecUpsert == Init /\ [][UpsertNext]_vars

SpecChart == ChartSpecInit /\ [][ChartNext]_vars

\* the browser runs a requested frame callback at the next frame, however
\* many events it handles before; the loops over the plugins go on, and a hook
\* ends by returning or throwing; nobody has to call the chart
SpecChartLive ==
    /\ ChartSpecInit /\ [][ChartNext]_vars
    /\ SF_vars(FrameTick) /\ WF_vars(NextHook) /\ WF_vars(HookReturn \/ HookThrow)
    /\ WF_vars(PhaseEnd) /\ WF_vars(FrameEnd) /\ WF_vars(EventEnd)

\* a PluginManager whose install and uninstall are called directly
SpecManager == Init /\ [][ManagerNext]_vars

\* the chart's series holds ten candles; the crosshair is enabled or not
PanInit ==
    TenCandles /\ RenderedChart /\ ViewportInit /\ SourceInit /\ srcKind = "randomWalk"

SpecPan == PanInit /\ [][PanNext]_vars

\* the chart of a series of any length up to MaxSeriesLength, after its first
\* frame, zoomed by the wheel, zoomIn and zoomOut
ZoomInit ==
    /\ \E n \in 0..MaxSeriesLength : SeriesOfLength(n)
    /\ RenderedChart /\ ViewportInit /\ SourceInit /\ srcKind = "randomWalk"

SpecZoom == ZoomInit /\ [][ZoomNext]_vars

\* a PanHandler on the chart's viewport, its methods called directly
SpecPanHandler == PanInit /\ [][PanHandlerNext]_vars

\* a source of either class, with and without loop
SourceSpecInit == StoreInit /\ ChartInit /\ ViewportInit /\ SourceInit

SpecSource == SourceSpecInit /\ [][SourceNext]_vars

\* a RandomWalkSource started, stopped and fired by its interval
SpecWalk == Init /\ [][WalkNext]_vars

\* an ArrayPlaybackSource constructed with any speed
PlaybackSpecInit == StoreInit /\ ChartInit /\ ViewportInit /\ PlaybackInit

SpecPlayback == PlaybackSpecInit /\ [][PlaybackNext]_vars

\* a chart of ten candles constructed with any wheel mode, after its first
\* frame: wheel events and setWheelMode
WheelSpecInit ==
    /\ TenCandles /\ ViewportInit /\ SourceInit /\ srcKind = "randomWalk"
    /\ \E mode \in WheelModes, enabled \in BOOLEAN :
           /\ FirstFrameDone([WithCrosshair(enabled) EXCEPT !.wheelMode = mode])
           /\ WheelInit(mode)

SpecWheel == WheelSpecInit /\ [][WheelNext]_vars

\* a viewport of whole numbers, timestamps and prices sent to pixels and back
ScaleInit == StoreInit /\ ChartInit /\ ScaleViewport /\ SourceInit /\ srcKind = "randomWalk"

SpecScale == ScaleInit /\ [][ScaleNext]_vars

\* playback sources constructed with and without loop and fixedInterval, and
\* with the speeds 1 and 2
ReplayInit ==
    /\ StoreInit /\ ChartInit /\ ViewportInit /\ NewSource /\ srcKind = "randomWalk"
    /\ replay \in {NewReplay(looping, factor, interval) :
                       looping \in BOOLEAN, factor \in ReplaySpeeds, interval \in FixedIntervals}

SpecReplay == ReplayInit /\ [][ReplayNext]_vars

\* viewports with sizes of zero, the four scale functions called on them
FallbackInit == StoreInit /\ ChartInit /\ FallbackViewport /\ SourceInit /\ srcKind = "randomWalk"

SpecFallback == FallbackInit /\ [][FallbackNext]_vars

\* viewports with whole-number time ranges, zoomed in double precision
RoundingInit == StoreInit /\ ChartInit /\ RoundingViewport /\ SourceInit /\ srcKind = "randomWalk"

SpecRounding == RoundingInit /\ [][RoundingNext]_vars

\* a viewport of any configuration, degenerate ones included
ViewportSpecInit == StoreInit /\ ChartInit /\ AnyViewport /\ SourceInit /\ srcKind = "randomWalk"

SpecViewport == ViewportSpecInit /\ [][ViewportNext]_vars

\* the same chart, its series still empty: data, data sources, resetViewport,
\* zooms, destroy and whole frames
SpecFrames == ChartSpecInit /\ [][FramesNext]_vars

\* a crosshair over an empty series, seen through any of the viewports
CrosshairInit ==
    StoreInit /\ ChartInit /\ CrosshairViewport /\ SourceInit /\ srcKind = "randomWalk"

SpecCrosshair == CrosshairInit /\ [][CrosshairNext]_vars

\* an empty series without listeners
ListenersSpecInit ==
    StoreInit /\ ChartInit /\ ViewportInit /\ SourceInit /\ srcKind = "randomWalk"

SpecListeners == ListenersSpecInit /\ [][ListenersNext]_vars
====
